---- MODULE Spec2Model ----
(***************************************************************************)
(* Stack-pointer adjustment tracking of Dr. Memory (drmemory/stack.c).     *)
(*                                                                         *)
(* The model keeps the program's own constants (threshold floor, ceiling   *)
(* of false alarms, page size, 64K shadow blocks).  Shadow memory and      *)
(* application memory are maps from byte addresses to a value; they are    *)
(* piecewise constant, so a map is stored as a function from its break     *)
(* points to the value that holds from that break point upward.            *)
(* All modelled addresses lie below 2^24, so no 32-bit operation of the    *)
(* code wraps on them and plain integer arithmetic is exact.               *)
(***************************************************************************)
EXTENDS Integers, Sequences, FiniteSets, TLC

(***************************************************************************)
(* Program constants                                                       *)
(***************************************************************************)
MAX_NUMBER_NON_SWAPS == 32
MIN_SWAP_THRESHOLD == 2048
PAGE_SIZE == 4096
\* one shadow block covers 64K of application addresses
SHADOW_BLOCK_SPAN == 65536
\* get_shadow_block_size(): shadow bytes of one block, one per granule
SHADOW_BLOCK_SIZE == 16384
\* size of the return address popped by ret before its immediate is applied
RETADDR_SIZE == 4
\* one shadow byte (one granule) describes 4 stack bytes
GRANULE == 4

SHADOW_UNADDRESSABLE == "Unaddressable"
SHADOW_UNDEFINED == "Undefined"
SHADOW_DEFINED == "Defined"
ShadowStates == {SHADOW_UNADDRESSABLE, SHADOW_UNDEFINED, SHADOW_DEFINED}

ESP_ADJUST_ABSOLUTE == "ABSOLUTE"
ESP_ADJUST_NEGATIVE == "NEGATIVE"
ESP_ADJUST_POSITIVE == "POSITIVE"
ESP_ADJUST_RET_IMMED == "RET_IMMED"
ESP_ADJUST_AND == "AND"
\* ESP_ADJUST_FAST_FIRST .. ESP_ADJUST_FAST_LAST
FastTypes == {ESP_ADJUST_ABSOLUTE, ESP_ADJUST_NEGATIVE, ESP_ADJUST_POSITIVE,
              ESP_ADJUST_RET_IMMED}

(***************************************************************************)
(* Bounds of the model                                                     *)
(***************************************************************************)
\* events that reach check_stack_swap (caps the swap-trigger counter)
MaxTriggers == 36
\* confirmed swaps (caps the confirmed-swap counter)
MaxSwaps == 1
\* events of the wide exploration of the handlers
MaxEvents == 2

(***************************************************************************)
(* Piecewise-constant maps over byte addresses                             *)
(***************************************************************************)
\* value of map m at byte address a: the value of the last break point <= a
MapAt(m, a) ==
    LET b == CHOOSE x \in DOMAIN m :
                 x <= a /\ \A y \in DOMAIN m : y <= a => y <= x
    IN m[b]

\* drop break points that change nothing, so equal maps are equal functions
Canon(m) ==
    LET keep == {b \in DOMAIN m : b = 0 \/ m[b] # MapAt(m, b - 1)}
    IN [b \in keep |-> m[b]]

\* every byte of [start, end) takes value v; an empty range changes nothing
MapSetRange(m, start, end, v) ==
    IF start >= end THEN m
    ELSE LET dom == {b \in DOMAIN m : b < start \/ b >= end} \cup {start, end}
             raw == [b \in dom |-> IF b = start THEN v
                                   ELSE IF b = end THEN MapAt(m, end)
                                   ELSE m[b]]
         IN Canon(raw)

Uniform(v) == [b \in {0} |-> v]

\* shadow_set_range(start, end, val) of the Shadow Memory collaborator
shadow_set_range(sh, start, end, val) == MapSetRange(sh, start, end, val)

\* memset(p, 0, n) on application memory
memset_zero(mem, p, n) == MapSetRange(mem, p, p + n, "zero")

\* bitwise and of two naturals (and esp, mask)
RECURSIVE BitAnd(_, _)
BitAnd(x, y) ==
    IF x = 0 \/ y = 0 THEN 0
    ELSE (IF x % 2 = 1 /\ y % 2 = 1 THEN 1 ELSE 0) + 2 * BitAnd(x \div 2, y \div 2)

(***************************************************************************)
(* Region Resolver collaborator: the address-space layout the lookups see  *)
(***************************************************************************)
\* heap arena [2097152, 3145728) = [0x200000, 0x300000)
HeapRegions == {[lo |-> 2097152, hi |-> 3145728]}
\* one large malloc [0x210000, 0x218000); every other heap address is a small malloc
LargeMallocs == {[base |-> 2162688, size |-> 32768]}
\* anonymous mapping [0x100000, 0x120000): a thread stack
AnonMmaps == {[base |-> 1048576, size |-> 131072]}
\* what the OS query knows: [0x0F00, 0x2000), the page of 0x300000, the
\* mapping of the heap [0x200000, 0x300000), and the thread stack merged with
\* the mapping above it into [0x100000, 0x140000)
OsRegions ==
    {[base |-> 3840, size |-> 4352], [base |-> 3145728, size |-> 4096],
     [base |-> 2097152, size |-> 1048576], [base |-> 1048576, size |-> 262144]}
\* the LINUX build consults the anonymous-mapping index
LINUX == TRUE

Inside(addr, r) == addr >= r.base /\ addr < r.base + r.size
NotFound == [ok |-> FALSE, base |-> 0, size |-> 0]
LookupIn(regions, addr) ==
    IF \E r \in regions : Inside(addr, r)
    THEN LET r == CHOOSE x \in regions : Inside(addr, x)
         IN [ok |-> TRUE, base |-> r.base, size |-> r.size]
    ELSE NotFound

is_in_heap_region(addr) == \E h \in HeapRegions : addr >= h.lo /\ addr < h.hi
malloc_large_lookup(addr) == LookupIn(LargeMallocs, addr)
mmap_anon_lookup(addr) == LookupIn(AnonMmaps, addr)
dr_query_memory(addr) == LookupIn(OsRegions, addr)

\* variant: every source is tried in turn until one resolves
get_stack_region_bounds_fallthrough(addr) ==
    IF is_in_heap_region(addr) /\ malloc_large_lookup(addr).ok
    THEN malloc_large_lookup(addr)
    ELSE IF LINUX /\ mmap_anon_lookup(addr).ok THEN mmap_anon_lookup(addr)
    ELSE dr_query_memory(addr)

\* bounds of the malloc or mmap region containing addr
get_stack_region_bounds(addr) ==
    IF is_in_heap_region(addr) THEN malloc_large_lookup(addr)
    ELSE IF LINUX /\ mmap_anon_lookup(addr).ok THEN mmap_anon_lookup(addr)
    ELSE dr_query_memory(addr)

(***************************************************************************)
(* Generated code: the immediates of the cmp instructions of one           *)
(* ESP_ADJUST_ABSOLUTE fragment, in emission order                         *)
(***************************************************************************)
\* cmp reg3, threshold; cmp reg3, -threshold; cmp reg3, 0; cmp reg3, 0:
\* every fragment compares the remaining count with 0 twice; only the
\* ESP_ADJUST_ABSOLUTE one compares with the threshold
FragmentCmps(type, thresh) ==
    IF type = ESP_ADJUST_ABSOLUTE THEN <<thresh, -thresh, 0, 0>> ELSE <<0, 0>>

generate_shared_esp_fastpath(thresh) ==
    [eflags_live \in {0, 1} |-> [type \in FastTypes |-> FragmentCmps(type, thresh)]]

\* variant: the negated comparand is overwritten with the new threshold as is
RECURSIVE PatchScan_nosign(_, _, _, _, _)
PatchScan_nosign(code, i, found, old, new) ==
    IF i > Len(code) \/ found >= 2 THEN [code |-> code, found |-> found]
    ELSE IF code[i] = old
         THEN PatchScan_nosign([code EXCEPT ![i] = new], i + 1, found + 1, old, new)
    ELSE IF code[i] = -old
         THEN PatchScan_nosign([code EXCEPT ![i] = new], i + 1, found + 1, old, new)
    ELSE PatchScan_nosign(code, i + 1, found, old, new)

\* the decode loop over one fragment: [code, found] after scanning from index i
RECURSIVE PatchScan(_, _, _, _, _)
PatchScan(code, i, found, old, new) ==
    IF i > Len(code) \/ found >= 2 THEN [code |-> code, found |-> found]
    ELSE IF code[i] = old
         THEN PatchScan([code EXCEPT ![i] = new], i + 1, found + 1, old, new)
    ELSE IF code[i] = -old
         THEN PatchScan([code EXCEPT ![i] = -new], i + 1, found + 1, old, new)
    ELSE PatchScan(code, i + 1, found, old, new)

\* esp_fastpath_update_swap_threshold: [gencode, ok]; ok is the final ASSERT
esp_fastpath_update_swap_threshold(gencode, old, new) ==
    [gencode |->
         [e \in DOMAIN gencode |->
              [gencode[e] EXCEPT ![ESP_ADJUST_ABSOLUTE] =
                   PatchScan(gencode[e][ESP_ADJUST_ABSOLUTE], 1, 0, old, new).code]],
     ok |-> \A e \in DOMAIN gencode :
                PatchScan(gencode[e][ESP_ADJUST_ABSOLUTE], 1, 0, old, new).found = 2]

(***************************************************************************)
(* The swap heuristic.  s is the record of the process-wide mutable state. *)
(***************************************************************************)
\* the threshold-update operation: patches the generated code, then stores
update_stack_swap_threshold(s, new_threshold) ==
    LET p == esp_fastpath_update_swap_threshold(s.gencode, s.threshold, new_threshold)
    IN [s EXCEPT !.gencode = p.gencode,
                 !.patch_ok = s.patch_ok /\ p.ok,
                 !.threshold = new_threshold,
                 !.threshold_updates = s.threshold_updates + 1]

\* variant: a stack exactly as large as the threshold lowers it too
check_stack_size_vs_threshold_incl(s, stack_size) ==
    IF stack_size <= s.threshold
    THEN LET new_thresh == MIN_SWAP_THRESHOLD
         IN IF new_thresh < s.threshold
            THEN update_stack_swap_threshold(s, new_thresh)
            ELSE s
    ELSE s

\* variant: the threshold follows the size of the stack instead of the floor
check_stack_size_vs_threshold_follow(s, stack_size) ==
    IF stack_size < s.threshold
    THEN update_stack_swap_threshold(s, stack_size)
    ELSE s

check_stack_size_vs_threshold(s, stack_size) ==
    IF stack_size < s.threshold
    THEN LET new_thresh == MIN_SWAP_THRESHOLD
         IN IF new_thresh < s.threshold
            THEN update_stack_swap_threshold(s, new_thresh)
            ELSE s
    ELSE s

\* variant: the upper bound of the region taken as inside
InStackRegion_closed(new_xsp, stack_start, stack_size) ==
    new_xsp >= stack_start /\ new_xsp <= stack_start + stack_size

\* variant: no test against the start of the region
InStackRegion_nolower(new_xsp, stack_start, stack_size) ==
    new_xsp < stack_start + stack_size

\* new_xsp >= stack_start && new_xsp < stack_start + stack_size
InStackRegion(new_xsp, stack_start, stack_size) ==
    new_xsp >= stack_start /\ new_xsp < stack_start + stack_size

\* num_non_swaps++ > MAX_NUMBER_NON_SWAPS, on the value before the increment
NonSwapCeilingExceeded(num_non_swaps) == num_non_swaps > MAX_NUMBER_NON_SWAPS

\* variant: the ceiling resets the counter but the threshold is not raised
NoteNonSwap_nobump(s) ==
    IF NonSwapCeilingExceeded(s.num_non_swaps)
    THEN [s EXCEPT !.num_non_swaps = 0]
    ELSE [s EXCEPT !.num_non_swaps = s.num_non_swaps + 1]

\* variant: the bump leaves the counter where it is
NoteNonSwap_noreset(s) ==
    IF NonSwapCeilingExceeded(s.num_non_swaps)
    THEN update_stack_swap_threshold(s, s.threshold + PAGE_SIZE)
    ELSE [s EXCEPT !.num_non_swaps = s.num_non_swaps + 1]

\* the branch taken when the adjustment is really intra-stack
NoteNonSwap(s) ==
    IF NonSwapCeilingExceeded(s.num_non_swaps)
    THEN update_stack_swap_threshold([s EXCEPT !.num_non_swaps = 0],
                                     s.threshold + PAGE_SIZE)
    ELSE [s EXCEPT !.num_non_swaps = s.num_non_swaps + 1]

\* check_stack_swap: [swap, s]
check_stack_swap(s, cur_xsp, new_xsp) ==
    LET s1 == [s EXCEPT !.stack_swap_triggers = s.stack_swap_triggers + 1]
        b == get_stack_region_bounds(cur_xsp)
    IN IF b.ok /\ InStackRegion(new_xsp, b.base, b.size)
       THEN [swap |-> FALSE, s |-> NoteNonSwap(s1)]
       ELSE [swap |-> TRUE, s |-> [s1 EXCEPT !.stack_swaps = s1.stack_swaps + 1]]

(***************************************************************************)
(* handle_esp_adjust                                                       *)
(***************************************************************************)
\* variant: a delta of exactly the threshold triggers the swap test
ExceedsThreshold_incl(delta, thresh) == delta >= thresh \/ delta <= -thresh

\* delta > options.stack_swap_threshold || delta < -options.stack_swap_threshold
ExceedsThreshold(delta, thresh) == delta > thresh \/ delta < -thresh

\* variant: lightweight mode zero-fills the released range of a shrink too
ApplyAdjust_fillshrink(s, shadowing, esp, delta) ==
    IF delta = 0 THEN s
    ELSE IF ~shadowing
         THEN [s EXCEPT !.appmem =
                   memset_zero(s.appmem,
                               IF delta < 0 THEN esp + delta ELSE esp,
                               IF delta < 0 THEN -delta ELSE delta)]
    ELSE [s EXCEPT !.shadow =
              shadow_set_range(s.shadow,
                               IF delta > 0 THEN esp ELSE esp + delta,
                               IF delta > 0 THEN esp + delta ELSE esp,
                               IF delta > 0 THEN SHADOW_UNADDRESSABLE
                                            ELSE SHADOW_UNDEFINED)]

\* variant: a shrink releases the granule at the new stack pointer too
ApplyAdjust_incl(s, shadowing, esp, delta) ==
    IF delta = 0 THEN s
    ELSE IF ~shadowing
         THEN IF delta < 0
              THEN [s EXCEPT !.appmem = memset_zero(s.appmem, esp + delta, -delta)]
              ELSE s
    ELSE [s EXCEPT !.shadow =
              shadow_set_range(s.shadow,
                               IF delta > 0 THEN esp ELSE esp + delta,
                               IF delta > 0 THEN esp + delta + GRANULE ELSE esp,
                               IF delta > 0 THEN SHADOW_UNADDRESSABLE
                                            ELSE SHADOW_UNDEFINED)]

\* the final update: zero-fill (lightweight mode) or shadow range (full tracking)
ApplyAdjust(s, shadowing, esp, delta) ==
    IF delta = 0 THEN s
    ELSE IF ~shadowing
         THEN IF delta < 0
              THEN [s EXCEPT !.appmem = memset_zero(s.appmem, esp + delta, -delta)]
              ELSE s
    ELSE [s EXCEPT !.shadow =
              shadow_set_range(s.shadow,
                               IF delta > 0 THEN esp ELSE esp + delta,
                               IF delta > 0 THEN esp + delta ELSE esp,
                               IF delta > 0 THEN SHADOW_UNADDRESSABLE
                                            ELSE SHADOW_UNDEFINED)]

\* variant: the update is applied whatever check_stack_swap answers
AdjustWithSwapCheck_always(s, shadowing, esp, newval) ==
    LET delta == newval - esp
    IN IF ExceedsThreshold(delta, s.threshold)
       THEN LET c == check_stack_swap(s, esp, newval)
            IN [s |-> ApplyAdjust(c.s, shadowing, esp, delta),
                lookup |-> TRUE, swap |-> c.swap]
       ELSE [s |-> ApplyAdjust(s, shadowing, esp, delta),
             lookup |-> FALSE, swap |-> FALSE]

\* the ABSOLUTE and AND branches: swap test, then the update from esp by delta
AdjustWithSwapCheck(s, shadowing, esp, newval) ==
    LET delta == newval - esp
    IN IF ExceedsThreshold(delta, s.threshold)
       THEN LET c == check_stack_swap(s, esp, newval)
            IN IF c.swap
               THEN [s |-> c.s, lookup |-> TRUE, swap |-> TRUE]
               ELSE [s |-> ApplyAdjust(c.s, shadowing, esp, delta),
                     lookup |-> TRUE, swap |-> FALSE]
       ELSE [s |-> ApplyAdjust(s, shadowing, esp, delta),
             lookup |-> FALSE, swap |-> FALSE]

\* the relative branch: sign, then the pop of the return address for ret
AdjustRelative(s, shadowing, type, esp, val) ==
    LET delta == IF type = ESP_ADJUST_NEGATIVE THEN -val ELSE val
        esp1 == IF type = ESP_ADJUST_RET_IMMED THEN esp + RETADDR_SIZE ELSE esp
    IN [s |-> ApplyAdjust(s, shadowing, esp1, delta),
        lookup |-> FALSE, swap |-> FALSE]

\* handle_esp_adjust(type, val) with mc.esp = esp: [s, lookup, swap], where
\* lookup tells whether check_stack_swap ran and swap what it answered
handle_esp_adjust(s, shadowing, type, esp, val) ==
    IF type = ESP_ADJUST_ABSOLUTE THEN AdjustWithSwapCheck(s, shadowing, esp, val)
    ELSE IF type = ESP_ADJUST_AND
         THEN AdjustWithSwapCheck(s, shadowing, esp, BitAnd(esp, val))
    ELSE AdjustRelative(s, shadowing, type, esp, val)

(***************************************************************************)
(* State                                                                   *)
(***************************************************************************)
VARIABLES
    threshold,            \* options.stack_swap_threshold
    num_non_swaps,        \* the static counter of check_stack_swap
    stack_swaps,          \* statistics: confirmed swaps
    stack_swap_triggers,  \* statistics: calls of check_stack_swap
    shadow,               \* shadow memory: byte address -> shadow state
    appmem,               \* application memory: byte address -> "stale" or "zero"
    gencode,              \* cmp immediates of shared_esp_fastpath[eflags_live][type]
    patch_ok,             \* FALSE once the patcher's final ASSERT has failed
    threshold_updates,    \* calls of update_stack_swap_threshold
    shadowing,            \* SHADOW_STACK_POINTER(): full tracking, else lightweight
    shared_slowpath,      \* options.shared_slowpath
    adjust_esp_fastpath,  \* statistics: completed fast-path walks
    fp,                   \* the fast-path fragment in execution: pc and registers
    patcher,              \* esp_fastpath_update_swap_threshold in execution
    swapcheck,            \* the threads inside check_stack_swap: pc and locals
    ev,                   \* the operation that ran last, for stating properties
    nevents               \* events so far, where the exploration bounds them

vars == <<threshold, num_non_swaps, stack_swaps, stack_swap_triggers, shadow,
          appmem, gencode, patch_ok, threshold_updates, shadowing,
          shared_slowpath, adjust_esp_fastpath, fp, patcher, swapcheck,
          ev, nevents>>

\* the process-wide mutable state as one record
State ==
    [threshold |-> threshold, num_non_swaps |-> num_non_swaps,
     stack_swaps |-> stack_swaps, stack_swap_triggers |-> stack_swap_triggers,
     shadow |-> shadow, appmem |-> appmem, gencode |-> gencode,
     patch_ok |-> patch_ok, threshold_updates |-> threshold_updates]

SetState(s) ==
    /\ threshold' = s.threshold
    /\ num_non_swaps' = s.num_non_swaps
    /\ stack_swaps' = s.stack_swaps
    /\ stack_swap_triggers' = s.stack_swap_triggers
    /\ shadow' = s.shadow
    /\ appmem' = s.appmem
    /\ gencode' = s.gencode
    /\ patch_ok' = s.patch_ok
    /\ threshold_updates' = s.threshold_updates

\* configured -stack_swap_threshold values
ConfiguredThresholds == {MIN_SWAP_THRESHOLD, 4096}

NoEvent == [op |-> "none"]
\* no fragment is executing
IdleFrag == [pc |-> "idle"]
\* no call of esp_fastpath_update_swap_threshold is executing
IdlePatcher == [pc |-> "idle"]
\* the monitored threads that may be inside check_stack_swap at once
SwapThreads == {1, 2}
\* no thread is inside check_stack_swap; calls counts the calls begun
IdleSwapCheck == [calls |-> 0, th |-> [t \in SwapThreads |-> [pc |-> "idle"]]]

\* shadow memory at startup: nothing is addressable yet
StartupShadow == Uniform(SHADOW_UNADDRESSABLE)

\* shadow layouts an adjustment may find: uniform ones, and a live stack whose
\* top is 0x1000 (unaddressable below, defined from 0x1000 to 0x2000)
ShadowLayouts ==
    {Uniform(v) : v \in ShadowStates}
    \cup {MapSetRange(Uniform(SHADOW_UNADDRESSABLE), 4096, 8192, SHADOW_DEFINED)}

InitWith(shadows, thresholds, shared) ==
    /\ threshold \in thresholds
    /\ num_non_swaps = 0
    /\ stack_swaps = 0
    /\ stack_swap_triggers = 0
    /\ shadow \in shadows
    /\ appmem = Uniform("stale")
    /\ gencode = generate_shared_esp_fastpath(threshold)
    /\ patch_ok = TRUE
    /\ threshold_updates = 0
    /\ shadowing \in BOOLEAN
    /\ shared_slowpath \in shared
    /\ adjust_esp_fastpath = 0
    /\ fp = IdleFrag
    /\ swapcheck = IdleSwapCheck
    /\ patcher = IdlePatcher
    /\ ev = NoEvent
    /\ nevents = 0

(***************************************************************************)
(* Inputs: the adjustment events the instrumented program produces         *)
(***************************************************************************)
Adj(type, esp, val) == [type |-> type, esp |-> esp, val |-> val]

\* mov/lea/xchg/leave into the stack pointer: val is the new stack pointer
AbsoluteInputs ==
    \* from 0x1000 inside [0x0F00, 0x2000): same, -8, +8, +1, +0x800, +0x900,
    \* to 0, to 0x2000
    {Adj(ESP_ADJUST_ABSOLUTE, 4096, v) :
         v \in {4096, 4088, 4104, 4097, 6144, 6400, 0, 8192}}
    \* from 0x110000 inside [0x100000, 0x120000): -0x2000, to base, to end, other stack
    \cup {Adj(ESP_ADJUST_ABSOLUTE, 1114112, v) :
              v \in {1105920, 1048576, 1179648, 2166784}}
    \* from 0x211000 inside the large malloc: +0x3000, back to the thread stack
    \cup {Adj(ESP_ADJUST_ABSOLUTE, 2166784, v) : v \in {2179072, 1114112}}
    \* from 0x205000, a small malloc whose bounds do not resolve
    \cup {Adj(ESP_ADJUST_ABSOLUTE, 2117632, v) : v \in {2117616, 2125824}}
    \* from 0x800000, an address no source resolves: -0x1000
    \cup {Adj(ESP_ADJUST_ABSOLUTE, 8388608, 8384512)}

\* add/sub/inc/dec/enter/ret: val is the operand as the call site passes it
RelativeInputs ==
    {Adj(ESP_ADJUST_NEGATIVE, 4096, v) : v \in {0, 8, 3}}
    \cup {Adj(ESP_ADJUST_NEGATIVE, 1114112, 4096)}
    \cup {Adj(ESP_ADJUST_POSITIVE, 4096, v) : v \in {8, 1, -1}}
    \cup {Adj(ESP_ADJUST_POSITIVE, 1105920, 8192)}
    \cup {Adj(ESP_ADJUST_RET_IMMED, 4096, v) : v \in {0, 8}}

\* and esp, mask: val is the mask (its low 24 bits: every address is below 2^24)
AndInputs ==
    {Adj(ESP_ADJUST_AND, 4104, 16777200),      \* 0x1008 & ~0xF = 0x1000
     Adj(ESP_ADJUST_AND, 1122320, 16711680),   \* 0x112010 & ~0xFFFF = 0x110000
     Adj(ESP_ADJUST_AND, 4096, 16769024)}      \* 0x1000 & ~0x1FFF = 0



\* the events that drive the swap heuristic: in-region oversized adjustments
\* (false alarms), genuine swaps, and adjustments around the threshold
HeuristicInputs ==
    {Adj(ESP_ADJUST_ABSOLUTE, 1114112, 1105920),   \* 0x110000 - 0x2000, in region
     Adj(ESP_ADJUST_ABSOLUTE, 1114112, 2166784),   \* to another stack
     Adj(ESP_ADJUST_ABSOLUTE, 2117632, 2125824),   \* bounds do not resolve
     Adj(ESP_ADJUST_ABSOLUTE, 4096, 6400),         \* +0x900 inside [0x0F00, 0x2000)
     Adj(ESP_ADJUST_AND, 1114112, 15728640),       \* 0x110000 & 0xF00000 = region base
     Adj(ESP_ADJUST_NEGATIVE, 1114112, 8192)}      \* sub esp, 0x2000

(***************************************************************************)
(* Actions                                                                 *)
(***************************************************************************)
\* the slow handler runs for event e
AdjustStep(e) ==
    LET r == handle_esp_adjust(State, shadowing, e.type, e.esp, e.val)
    IN /\ r.s.stack_swap_triggers <= MaxTriggers
       /\ r.s.stack_swaps <= MaxSwaps
       /\ SetState(r.s)
       /\ ev' = [op |-> "adjust", type |-> e.type, esp |-> e.esp, val |-> e.val,
                 lookup |-> r.lookup, swap |-> r.swap]
       /\ UNCHANGED <<swapcheck, shadowing, shared_slowpath, patcher, adjust_esp_fastpath, fp>>

\* an instrumented instruction calls the slow handler
HandleEspAdjust ==
    \E e \in HeuristicInputs : AdjustStep(e) /\ UNCHANGED nevents

\* a stack region's size becomes known (thread-stack creation)
CheckStackSize ==
    \E sz \in {1024, 4096, 131072} :
        /\ SetState(check_stack_size_vs_threshold(State, sz))
        /\ ev' = [op |-> "size", size |-> sz]
        /\ UNCHANGED <<swapcheck, shadowing, shared_slowpath, patcher, adjust_esp_fastpath, fp, nevents>>

Next == HandleEspAdjust \/ CheckStackSize

Spec ==
    /\ InitWith({StartupShadow}, ConfiguredThresholds, {TRUE})
    /\ [][Next]_vars

\* the slow handler on the wide set of events, a bounded number of them
HandleEspAdjustAny ==
    /\ nevents < MaxEvents
    /\ \E e \in AbsoluteInputs \cup RelativeInputs \cup AndInputs : AdjustStep(e)
    /\ nevents' = nevents + 1

UpdateNext == HandleEspAdjustAny

UpdateSpec ==
    /\ InitWith(ShadowLayouts, ConfiguredThresholds, {TRUE})
    /\ [][UpdateNext]_vars

(***************************************************************************)
(* Shadow table of the Shadow Memory collaborator, as generated code sees  *)
(* it: one shadow byte per granule, in blocks covering 64K each            *)
(***************************************************************************)
\* shadow blocks do not follow one another in memory: block k starts here
ShadowBlockBase(k) == k * (2 * SHADOW_BLOCK_SIZE)
\* blocks generated code cannot resolve or write: [0xF0000, 0x100000)
SpecialBlocks == {15}
BlockOf(addr) == addr \div SHADOW_BLOCK_SPAN
OffsOf(addr) == (addr % SHADOW_BLOCK_SPAN) \div GRANULE

\* add_shadow_table_lookup with memsz 4: bails when addr is not aligned or its
\* block does not resolve; else the shadow byte's address and its offset
add_shadow_table_lookup(addr) ==
    IF addr % GRANULE # 0 \/ BlockOf(addr) \in SpecialBlocks
    THEN [ok |-> FALSE, saddr |-> 0, offs |-> 0]
    ELSE [ok |-> TRUE,
          saddr |-> ShadowBlockBase(BlockOf(addr)) + OffsOf(addr),
          offs |-> OffsOf(addr)]

\* application address of the granule that shadow byte saddr describes
GranuleOf(saddr) ==
    (saddr \div (2 * SHADOW_BLOCK_SIZE)) * SHADOW_BLOCK_SPAN
        + (saddr % (2 * SHADOW_BLOCK_SIZE)) * GRANULE

\* mov byte [saddr], SHADOW_DWORD_<val>
StoreShadowByte(sh, saddr, val) ==
    MapSetRange(sh, GranuleOf(saddr), GranuleOf(saddr) + GRANULE, val)

(***************************************************************************)
(* The shared fast-path fragment of generate_shared_esp_fastpath_helper,   *)
(* one action per label.  reg1 = edx, reg2 = ebx, reg3 = ecx; slot1 is the *)
(* spill slot esp_spill_slot_base()+1 that keeps the val argument.         *)
(***************************************************************************)
\* runs of a fragment in one exploration
MaxFastRuns == 1

\* events at sites instrumented with the fast path: val is the operand as
\* the slow handler takes it
FastInputs ==
    \* absolute from 0x1000: -8, +8, 0, +1, to 0 (swap), +0x900 (in region)
    {Adj(ESP_ADJUST_ABSOLUTE, 4096, v) : v \in {4088, 4104, 4096, 4097, 0, 6400}}
    \* absolute from the unaligned 0x1002
    \cup {Adj(ESP_ADJUST_ABSOLUTE, 4098, 4090)}
    \* absolute across the block boundary 0x110000, down and up
    \cup {Adj(ESP_ADJUST_ABSOLUTE, 1114128, 1114096),
          Adj(ESP_ADJUST_ABSOLUTE, 1114096, 1114128)}
    \* sub esp: 8, 3, 0; across 0x110000; into the special block below 0x100000
    \cup {Adj(ESP_ADJUST_NEGATIVE, 4096, v) : v \in {8, 3, 0}}
    \cup {Adj(ESP_ADJUST_NEGATIVE, 1114128, 32),
          Adj(ESP_ADJUST_NEGATIVE, 1048592, 32)}
    \* add esp: 8; dec esp; across 0x110000
    \cup {Adj(ESP_ADJUST_POSITIVE, 4096, v) : v \in {8, -1}}
    \cup {Adj(ESP_ADJUST_POSITIVE, 1114096, 32)}
    \* ret n: 8, 0; across 0x110000
    \cup {Adj(ESP_ADJUST_RET_IMMED, 4096, v) : v \in {8, 0}}
    \cup {Adj(ESP_ADJUST_RET_IMMED, 1114092, 32)}
    \* ret n with n not a multiple of 4: the fragment bails to the slow callback
    \cup {Adj(ESP_ADJUST_RET_IMMED, 4096, 6)}


\* the call site loads the operand into ecx, negated for sub and enter
CallSiteArg(type, val) == IF type = ESP_ADJUST_NEGATIVE THEN -val ELSE val

\* variant: the walk starts at esp for ret as well
FragStartSp_nopop(type, esp) == esp

\* the initial address to look up is cur esp, after the pop for ret
FragStartSp(type, esp) ==
    IF type = ESP_ADJUST_RET_IMMED THEN esp + RETADDR_SIZE ELSE esp

\* loop_next_shadow: esp, plus the stored val, minus the remaining count
FragResumeAddr(type, esp, slot1, reg3) == FragStartSp(type, esp) + slot1 - reg3

heuristicVars ==
    <<threshold, num_non_swaps, stack_swaps, stack_swap_triggers, appmem,
      gencode, patch_ok, threshold_updates>>

\* the site jumps to shared_esp_fastpath[eflags_live][type]
FastCall ==
    /\ fp.pc = "idle"
    /\ nevents < MaxFastRuns
    /\ \E e \in FastInputs, fl \in {0, 1}, retaddr \in {12582912, 12583168} :
          \* edx (reg1) holds the return address, ecx (reg3) the operand
          /\ fp' = [pc |-> "entry", type |-> e.type, eflags_live |-> fl,
                    esp |-> e.esp, val |-> e.val, retaddr |-> retaddr,
                    reg1 |-> retaddr, reg2 |-> 0,
                    reg3 |-> CallSiteArg(e.type, e.val),
                    slot0 |-> 0, slot1 |-> 0, writes |-> 0, s0 |-> State]
          /\ ev' = [op |-> "fastcall", type |-> e.type, esp |-> e.esp, val |-> e.val]
    /\ nevents' = nevents + 1
    /\ UNCHANGED <<heuristicVars, shadow, swapcheck, shadowing, shared_slowpath, patcher,
                   adjust_esp_fastpath>>

\* entry: save val, load esp, delta and threshold compares, alignment test
FragEntry ==
    /\ fp.pc = "entry"
    /\ LET reg1 == FragStartSp(fp.type, fp.esp)
           abs == fp.type = ESP_ADJUST_ABSOLUTE
           reg3 == IF abs THEN fp.reg3 - reg1 ELSE fp.reg3
           imm == gencode[fp.eflags_live][fp.type]
           bail == \/ abs /\ (reg3 > imm[1] \/ reg3 < imm[2])
                   \/ reg3 % GRANULE # 0
       IN fp' = [fp EXCEPT !.slot1 = fp.reg3, !.slot0 = fp.reg1,
                           !.reg1 = reg1, !.reg3 = reg3,
                           !.pc = IF bail THEN "slowpath" ELSE "loop_shadow_lookup"]
    /\ UNCHANGED <<heuristicVars, shadow, swapcheck, shadowing, shared_slowpath, patcher,
                   adjust_esp_fastpath, ev, nevents>>

\* loop_shadow_lookup and shadow_lookup: step below esp when growing, translate,
\* then compute the bound of the shadow block for the loop that follows
FragShadowLookup ==
    /\ fp.pc = "loop_shadow_lookup"
    /\ IF fp.reg3 = 0
       THEN fp' = [fp EXCEPT !.pc = "loop_done"]
       ELSE LET a == IF fp.reg3 > 0 THEN fp.reg1 ELSE fp.reg1 - GRANULE
                l == add_shadow_table_lookup(a)
            IN IF ~l.ok
               THEN fp' = [fp EXCEPT !.reg1 = a, !.pc = "slowpath"]
               ELSE IF fp.reg3 < 0
                    THEN fp' = [fp EXCEPT !.reg1 = l.saddr,
                                          !.reg2 = l.saddr - l.offs,
                                          !.pc = "loop_push_repeat"]
               ELSE fp' = [fp EXCEPT !.reg1 = l.saddr,
                                     !.reg2 = l.saddr - l.offs + SHADOW_BLOCK_SIZE,
                                     !.pc = "loop_pop_repeat"]
    /\ UNCHANGED <<heuristicVars, shadow, swapcheck, shadowing, shared_slowpath, patcher,
                   adjust_esp_fastpath, ev, nevents>>

\* loop_pop_repeat: one granule Unaddressable, upward
FragPopRepeat ==
    /\ fp.pc = "loop_pop_repeat"
    /\ shadow' = StoreShadowByte(shadow, fp.reg1, SHADOW_UNADDRESSABLE)
    /\ LET reg1 == fp.reg1 + 1
           reg3 == fp.reg3 - GRANULE
       IN fp' = [fp EXCEPT !.reg1 = reg1, !.reg3 = reg3, !.writes = @ + 1,
                           !.pc = IF reg3 = 0 THEN "loop_done"
                                  ELSE IF reg1 >= fp.reg2 THEN "loop_next_shadow"
                                  ELSE "loop_pop_repeat"]
    /\ UNCHANGED <<heuristicVars, swapcheck, shadowing, shared_slowpath, patcher,
                   adjust_esp_fastpath, ev, nevents>>

\* loop_push_repeat: one granule Undefined, downward
FragPushRepeat ==
    /\ fp.pc = "loop_push_repeat"
    /\ shadow' = StoreShadowByte(shadow, fp.reg1, SHADOW_UNDEFINED)
    /\ LET reg1 == fp.reg1 - 1
           reg3 == fp.reg3 + GRANULE
       IN fp' = [fp EXCEPT !.reg1 = reg1, !.reg3 = reg3, !.writes = @ + 1,
                           !.pc = IF reg3 = 0 THEN "loop_done"
                                  ELSE IF reg1 < fp.reg2 THEN "loop_next_shadow"
                                  ELSE "loop_push_repeat"]
    /\ UNCHANGED <<heuristicVars, swapcheck, shadowing, shared_slowpath, patcher,
                   adjust_esp_fastpath, ev, nevents>>

\* loop_next_shadow: the walk left its shadow block, look up again
FragNextShadow ==
    /\ fp.pc = "loop_next_shadow"
    /\ fp' = [fp EXCEPT !.reg1 = FragResumeAddr(fp.type, fp.esp, fp.slot1, fp.reg3),
                        !.pc = "loop_shadow_lookup"]
    /\ UNCHANGED <<heuristicVars, shadow, swapcheck, shadowing, shared_slowpath, patcher,
                   adjust_esp_fastpath, ev, nevents>>

\* variant: restore jumps through edx, which holds the shadow address by then
FragDone_jmpreg ==
    /\ fp.pc = "loop_done"
    /\ adjust_esp_fastpath' = adjust_esp_fastpath + 1
    /\ fp' = [fp EXCEPT !.pc = "idle"]
    /\ ev' = [op |-> "fastdone", via |-> "walk", type |-> fp.type, esp |-> fp.esp,
              val |-> fp.val, lookup |-> FALSE, swap |-> FALSE, ret |-> fp.reg1]
    /\ UNCHANGED <<heuristicVars, shadow, swapcheck, shadowing, shared_slowpath, patcher, nevents>>

\* loop_done and restore: count the hit, jmp_ind through the slot to the site
FragDone ==
    /\ fp.pc = "loop_done"
    /\ adjust_esp_fastpath' = adjust_esp_fastpath + 1
    /\ fp' = [fp EXCEPT !.pc = "idle"]
    /\ ev' = [op |-> "fastdone", via |-> "walk", type |-> fp.type, esp |-> fp.esp,
              val |-> fp.val, lookup |-> FALSE, swap |-> FALSE, ret |-> fp.slot0]
    /\ UNCHANGED <<heuristicVars, shadow, swapcheck, shadowing, shared_slowpath, patcher, nevents>>

\* the val argument the fragment's slowpath exit hands to the slow callback:
\* the tail call into shared_esp_slowpath negates it back for sub and enter
SlowpathArg(shared, type, slot1) ==
    IF shared /\ type = ESP_ADJUST_NEGATIVE THEN -slot1 ELSE slot1

\* mi.slowpath: handle_esp_adjust_shared_slowpath derives the type from the
\* instruction at the site and calls handle_esp_adjust, then the site resumes
FragSlowpath ==
    /\ fp.pc = "slowpath"
    /\ LET r == handle_esp_adjust(State, shadowing, fp.type, fp.esp,
                                  SlowpathArg(shared_slowpath, fp.type, fp.slot1))
       IN /\ r.s.stack_swap_triggers <= MaxTriggers
          /\ r.s.stack_swaps <= MaxSwaps
          /\ SetState(r.s)
          /\ ev' = [op |-> "fastdone", via |-> "slowpath", type |-> fp.type,
                    esp |-> fp.esp, val |-> fp.val,
                    lookup |-> r.lookup, swap |-> r.swap, ret |-> fp.slot0]
    /\ fp' = [fp EXCEPT !.pc = "idle"]
    /\ UNCHANGED <<swapcheck, shadowing, shared_slowpath, patcher, adjust_esp_fastpath, nevents>>

FastNext ==
    \/ FastCall
    \/ FragEntry
    \/ FragShadowLookup
    \/ FragPopRepeat
    \/ FragPushRepeat
    \/ FragNextShadow
    \/ FragDone
    \/ FragSlowpath

\* full tracking with the fast path generated
FastInit ==
    /\ InitWith({Uniform(SHADOW_DEFINED), StartupShadow}, {MIN_SWAP_THRESHOLD}, BOOLEAN)
    /\ shadowing = TRUE

FastSpec == FastInit /\ [][FastNext]_vars

\* the fragment is straight-line code of the thread that entered it: once
\* entered, it keeps executing
FragmentRuns ==
    \/ FragEntry
    \/ FragShadowLookup
    \/ FragPopRepeat
    \/ FragPushRepeat
    \/ FragNextShadow
    \/ FragDone
    \/ FragSlowpath

FastLiveSpec == FastSpec /\ WF_vars(FragmentRuns)

(***************************************************************************)
(* The threshold update seen alone: its two callers, and generated code    *)
(* that may not embed the current threshold                                *)
(***************************************************************************)
\* calls of update_stack_swap_threshold in one exploration
MaxPatches == 8

\* what the patcher may find: the code as generated for thresh; code that
\* embeds another threshold in both variants, in the eflags-live variant
\* only, or in one comparand only
CodeLayouts(thresh) ==
    LET good == generate_shared_esp_fastpath(thresh)
        stale == generate_shared_esp_fastpath(thresh + PAGE_SIZE)
    IN {good, stale,
        [good EXCEPT ![1] = stale[1]],
        [good EXCEPT ![0][ESP_ADJUST_ABSOLUTE][2] = -(thresh + PAGE_SIZE)]}

\* a call of update_stack_swap_threshold(new)
PatchStep(new) ==
    /\ threshold_updates < MaxPatches
    /\ SetState(update_stack_swap_threshold(State, new))
    /\ ev' = [op |-> "patch", old |-> threshold, new |-> new]
    /\ UNCHANGED <<swapcheck, shadowing, shared_slowpath, patcher, adjust_esp_fastpath, fp, nevents>>

\* the call in check_stack_size_vs_threshold
LowerThreshold ==
    /\ patch_ok
    /\ MIN_SWAP_THRESHOLD < threshold
    /\ PatchStep(MIN_SWAP_THRESHOLD)

\* the call in check_stack_swap
RaiseThreshold ==
    /\ patch_ok
    /\ PatchStep(threshold + PAGE_SIZE)

PatchNext == LowerThreshold \/ RaiseThreshold

PatchInit ==
    /\ threshold \in ConfiguredThresholds
    /\ num_non_swaps = 0
    /\ stack_swaps = 0
    /\ stack_swap_triggers = 0
    /\ shadow = StartupShadow
    /\ appmem = Uniform("stale")
    /\ gencode \in CodeLayouts(threshold)
    /\ patch_ok = TRUE
    /\ threshold_updates = 0
    /\ shadowing \in BOOLEAN
    /\ shared_slowpath \in BOOLEAN
    /\ adjust_esp_fastpath = 0
    /\ fp = IdleFrag
    /\ swapcheck = IdleSwapCheck
    /\ patcher = IdlePatcher
    /\ ev = NoEvent
    /\ nevents = 0

PatchSpec == PatchInit /\ [][PatchNext]_vars

(***************************************************************************)
(* The errant-stack heuristic: handle_push_addressable                     *)
(***************************************************************************)
\* variant: a full page is marked whatever the start of the region
handle_push_addressable_noclamp(s, check_push, addr, start_addr) ==
    IF ~check_push THEN [handled |-> FALSE, err |-> FALSE, s |-> s]
    ELSE LET b == get_stack_region_bounds(addr)
         IN IF b.ok
            THEN [handled |-> TRUE, err |-> FALSE,
                  s |-> check_stack_size_vs_threshold(
                            [s EXCEPT !.shadow =
                                 shadow_set_range(s.shadow, addr - PAGE_SIZE,
                                                  start_addr, SHADOW_UNADDRESSABLE)],
                            b.size)]
            ELSE [handled |-> FALSE, err |-> TRUE, s |-> s]

\* variant: options.check_push is not consulted
handle_push_addressable_unchecked(s, check_push, addr, start_addr) ==
    LET b == get_stack_region_bounds(addr)
    IN IF b.ok
       THEN [handled |-> TRUE, err |-> FALSE,
             s |-> check_stack_size_vs_threshold(
                       [s EXCEPT !.shadow =
                            shadow_set_range(s.shadow,
                                             IF addr - PAGE_SIZE < b.base
                                             THEN b.base ELSE addr - PAGE_SIZE,
                                             start_addr, SHADOW_UNADDRESSABLE)],
                       b.size)]
       ELSE [handled |-> FALSE, err |-> TRUE, s |-> s]

\* handle_push_addressable(loc, addr, start_addr, sz, mc): [handled, err, s],
\* err telling whether the ERROR line was logged
handle_push_addressable(s, check_push, addr, start_addr) ==
    IF ~check_push THEN [handled |-> FALSE, err |-> FALSE, s |-> s]
    ELSE LET b == get_stack_region_bounds(addr)
         IN IF b.ok
            THEN [handled |-> TRUE, err |-> FALSE,
                  s |-> check_stack_size_vs_threshold(
                            [s EXCEPT !.shadow =
                                 shadow_set_range(s.shadow,
                                                  IF addr - PAGE_SIZE < b.base
                                                  THEN b.base ELSE addr - PAGE_SIZE,
                                                  start_addr, SHADOW_UNADDRESSABLE)],
                            b.size)]
            ELSE [handled |-> FALSE, err |-> TRUE, s |-> s]

\* pushes in one exploration
MaxPushes == 2

Push(addr, start_addr, sz) == [addr |-> addr, start_addr |-> start_addr, sz |-> sz]

\* writes of sz bytes from start_addr found addressable at byte addr
PushInputs ==
    \* in [0x0F00, 0x2000): a page fits below 0x1FFC; the region starts less
    \* than a page below 0x1800; the addressable byte is the third of the write
    {Push(8188, 8188, 4), Push(6144, 6144, 4), Push(6146, 6144, 4)}
    \* in the thread stack [0x100000, 0x120000): mid-stack, and near its start
    \cup {Push(1114112, 1114112, 4), Push(1050624, 1050624, 8)}
    \* in the large malloc [0x210000, 0x218000), exactly a page above its base
    \cup {Push(2166784, 2166784, 4)}
    \* in a small malloc, and at an address no source resolves
    \cup {Push(2117632, 2117632, 4), Push(8388608, 8388608, 4)}


\* the load/store shadow engine reports a push to addressable memory
HandlePushAddressable ==
    /\ nevents < MaxPushes
    /\ \E p \in PushInputs, check_push \in BOOLEAN, pause_at_unaddressable \in BOOLEAN :
          LET r == handle_push_addressable(State, check_push, p.addr, p.start_addr)
          IN /\ SetState(r.s)
             /\ ev' = [op |-> "push", addr |-> p.addr, start_addr |-> p.start_addr,
                       sz |-> p.sz, check_push |-> check_push,
                       handled |-> r.handled, err |-> r.err,
                       paused |-> r.err /\ pause_at_unaddressable]
    /\ nevents' = nevents + 1
    /\ UNCHANGED <<swapcheck, shadowing, shared_slowpath, patcher, adjust_esp_fastpath, fp>>

PushNext == HandlePushAddressable

PushInit ==
    /\ InitWith(ShadowLayouts, ConfiguredThresholds \cup {8192}, {TRUE})
    /\ shadowing = TRUE

PushSpec == PushInit /\ [][PushNext]_vars

(***************************************************************************)
(* The slow callback: handle_esp_adjust_shared_slowpath                    *)
(***************************************************************************)
ESP_ADJUST_INVALID == "INVALID"

get_esp_adjust_type(opc) ==
    CASE opc \in {"OP_mov_st", "OP_mov_ld", "OP_leave", "OP_lea", "OP_xchg"}
             -> ESP_ADJUST_ABSOLUTE
      [] opc \in {"OP_inc", "OP_dec", "OP_add"} -> ESP_ADJUST_POSITIVE
      [] opc = "OP_sub" -> ESP_ADJUST_NEGATIVE
      [] opc = "OP_ret" -> ESP_ADJUST_RET_IMMED
      [] opc = "OP_enter" -> ESP_ADJUST_NEGATIVE
      [] opc = "OP_and" -> ESP_ADJUST_AND
      [] OTHER -> ESP_ADJUST_INVALID

\* a decoded instruction: opcode, instr_writes_esp, instr_is_cti
Instr(opc, writes_esp, cti) == [opc |-> opc, writes_esp |-> writes_esp, cti |-> cti]
\* restoration of a register or of eflags after the call
RestoreInstr == Instr("OP_mov_ld", FALSE, FALSE)
\* the application instruction that writes esp
EspWriter(opc) == Instr(opc, TRUE, FALSE)
JmpInstr == Instr("OP_jmp", FALSE, TRUE)

\* variant: a control transfer is decoded past like any other instruction
RECURSIVE DecodeForward_pastcti(_, _)
DecodeForward_pastcti(code, i) ==
    IF i > Len(code) THEN [found |-> FALSE, type |-> ESP_ADJUST_INVALID]
    ELSE IF code[i].writes_esp
         THEN [found |-> TRUE,
               type |-> IF code[i].opc = "OP_pop"
                        THEN get_esp_adjust_type("OP_ret")
                        ELSE get_esp_adjust_type(code[i].opc)]
    ELSE DecodeForward_pastcti(code, i + 1)

\* the decode loop from the return address: the type of the first instruction
\* that writes esp, or not found when a control transfer comes first
RECURSIVE DecodeForward(_, _)
DecodeForward(code, i) ==
    IF i > Len(code) THEN [found |-> FALSE, type |-> ESP_ADJUST_INVALID]
    ELSE IF code[i].writes_esp
         THEN [found |-> TRUE,
               type |-> IF code[i].opc = "OP_pop"
                        THEN get_esp_adjust_type("OP_ret")
                        ELSE get_esp_adjust_type(code[i].opc)]
    ELSE IF code[i].cti
         THEN [found |-> FALSE, type |-> ESP_ADJUST_INVALID]
    ELSE DecodeForward(code, i + 1)

\* handle_esp_adjust_shared_slowpath(val) with the code at the return address:
\* [s, fatal, type, lookup, swap]; fatal is the ASSERT on the missed instruction
handle_esp_adjust_shared_slowpath(s, tracking, code, esp, val) ==
    LET d == DecodeForward(code, 1)
    IN IF d.found
       THEN LET r == handle_esp_adjust(s, tracking, d.type, esp, val)
            IN [s |-> r.s, fatal |-> FALSE, type |-> d.type,
                lookup |-> r.lookup, swap |-> r.swap]
       ELSE [s |-> s, fatal |-> TRUE, type |-> d.type,
             lookup |-> FALSE, swap |-> FALSE]

\* calls of the slow callback in one exploration
MaxSlowCalls == 2

Site(code, esp, val) == [code |-> code, esp |-> esp, val |-> val]

\* call sites: the code that follows the call, esp and the val argument
SlowSites ==
    \* sub esp,8 after two restores, and directly
    {Site(<<RestoreInstr, RestoreInstr, EspWriter("OP_sub")>>, 4096, 8),
     Site(<<EspWriter("OP_sub")>>, 4096, 8),
     \* ret 8, mangled into a pop
     Site(<<RestoreInstr, EspWriter("OP_pop")>>, 4096, 8),
     \* mov esp,0xFF8; and esp,~0xF; add esp,8
     Site(<<RestoreInstr, EspWriter("OP_mov_st")>>, 4096, 4088),
     Site(<<RestoreInstr, EspWriter("OP_and")>>, 4104, 16777200),
     Site(<<EspWriter("OP_add")>>, 4096, 8),
     \* a control transfer is met first: alone, after a restore, before a sub
     Site(<<JmpInstr>>, 4096, 8),
     Site(<<RestoreInstr, JmpInstr>>, 4096, 8),
     Site(<<JmpInstr, EspWriter("OP_sub")>>, 4096, 8)}

\* the process has stopped on the failed ASSERT of the slow callback
SlowStopped == ev.op = "slowcall" /\ ev.fatal

SharedSlowpathCall ==
    /\ ~SlowStopped
    /\ nevents < MaxSlowCalls
    /\ \E site \in SlowSites :
          LET r == handle_esp_adjust_shared_slowpath(State, shadowing, site.code,
                                                     site.esp, site.val)
          IN /\ SetState(r.s)
             /\ ev' = [op |-> "slowcall", code |-> site.code, esp |-> site.esp,
                       val |-> site.val, fatal |-> r.fatal, type |-> r.type,
                       lookup |-> r.lookup, swap |-> r.swap]
    /\ nevents' = nevents + 1
    /\ UNCHANGED <<swapcheck, shadowing, shared_slowpath, patcher, adjust_esp_fastpath, fp>>

SlowNext == SharedSlowpathCall

SlowSpec ==
    /\ InitWith(ShadowLayouts, {MIN_SWAP_THRESHOLD}, {TRUE})
    /\ [][SlowNext]_vars

(***************************************************************************)
(* The patcher step by step, beside a thread that executes an              *)
(* ESP_ADJUST_ABSOLUTE fragment.  The patcher holds a lock and has made    *)
(* the code writable, but suspends no thread ("not worth suspend-world"):  *)
(* it stores each immediate with one 4-byte store, and a store that        *)
(* crosses a cache line reaches the executing thread in two parts.         *)
(***************************************************************************)
Pow256(k) == CASE k = 0 -> 1 [] k = 1 -> 256 [] k = 2 -> 65536 [] OTHER -> 16777216

\* byte k (0 is the lowest) of the 32-bit two's complement encoding of v
ImmByte(v, k) ==
    IF v >= 0 THEN (v \div Pow256(k)) % 256
    ELSE 255 - (((-v - 1) \div Pow256(k)) % 256)

\* the signed 32-bit value of the bytes b[0] .. b[3]
ImmValue(b) ==
    IF b[3] >= 128
    THEN -((255 - b[0]) + (255 - b[1]) * 256 + (255 - b[2]) * 65536
           + (255 - b[3]) * 16777216) - 1
    ELSE b[0] + b[1] * 256 + b[2] * 65536 + b[3] * 16777216

\* *(int*)(pc-4) when its bytes below the cache-line boundary, `split` of
\* them, hold the bytes of below and the others hold the bytes of above
Spliced(below, above, split) ==
    ImmValue([k \in 0..3 |-> IF k < split THEN ImmByte(below, k)
                             ELSE ImmByte(above, k)])

\* CROSSES_ALIGNMENT(pc-4, 4, proc_get_cache_line_size()) for the two
\* threshold immediates of each fragment: the number of bytes of the
\* immediate that lie before the boundary, 0 when it does not cross.  Where
\* the fragments are emitted decides it; the two immediates of a fragment
\* are a dozen bytes apart, so at most one of them crosses
CacheLineLayouts ==
    {[e \in {0, 1} |-> <<0, 0>>],
     [e \in {0, 1} |-> IF e = 0 THEN <<2, 0>> ELSE <<0, 0>>],
     [e \in {0, 1} |-> IF e = 1 THEN <<0, 2>> ELSE <<0, 0>>],
     [e \in {0, 1} |-> IF e = 0 THEN <<0, 1>> ELSE <<3, 0>>]}

MaxRacePatches == 2
MaxRaceRuns == 2


CrossAt(e, i) == IF i <= 2 THEN patcher.cross[e][i] ELSE 0

\* update_stack_swap_threshold(new) calls the patcher, which starts on the
\* fragment for eflags_live = 0
PatcherStart(new) ==
    /\ threshold_updates < MaxRacePatches
    /\ patcher' = [pc |-> "decode", cross |-> patcher.cross, eflags_live |-> 0,
                   i |-> 1, found |-> 0, new |-> new]
    /\ ev' = [op |-> "patchstart", old |-> threshold, new |-> new]
    /\ UNCHANGED <<heuristicVars, shadow, swapcheck, shadowing, shared_slowpath,
                   adjust_esp_fastpath, fp, nevents>>

\* the call in check_stack_size_vs_threshold
RaceLowerThreshold ==
    /\ patcher.pc = "idle" /\ patch_ok
    /\ MIN_SWAP_THRESHOLD < threshold
    /\ PatcherStart(MIN_SWAP_THRESHOLD)

\* the call in check_stack_swap
RaceRaiseThreshold ==
    /\ patcher.pc = "idle" /\ patch_ok
    /\ PatcherStart(threshold + PAGE_SIZE)

\* one turn of the do-while loop: decode the next cmp and, if its immediate
\* is the threshold or its negation, store over it; a store that crosses a
\* cache line becomes visible in two parts, in either order
PatcherDecode ==
    /\ patcher.pc = "decode"
    /\ LET e == patcher.eflags_live
           i == patcher.i
           code == gencode[e][ESP_ADJUST_ABSOLUTE]
       IN /\ patcher.found < 2 /\ i <= Len(code)
          /\ LET immed == code[i]
                 target == IF immed = threshold THEN patcher.new ELSE -patcher.new
             IN IF immed # threshold /\ immed # -threshold
                THEN /\ patcher' = [patcher EXCEPT !.i = i + 1]
                     /\ UNCHANGED gencode
                ELSE IF CrossAt(e, i) = 0
                THEN /\ gencode' = [gencode EXCEPT ![e][ESP_ADJUST_ABSOLUTE][i] = target]
                     /\ patcher' = [patcher EXCEPT !.i = i + 1, !.found = @ + 1]
                ELSE \E lowfirst \in BOOLEAN :
                     /\ gencode' = [gencode EXCEPT ![e][ESP_ADJUST_ABSOLUTE][i] =
                                        IF lowfirst
                                        THEN Spliced(target, immed, CrossAt(e, i))
                                        ELSE Spliced(immed, target, CrossAt(e, i))]
                     /\ patcher' = [pc |-> "store", cross |-> patcher.cross,
                                    eflags_live |-> e, i |-> i,
                                    found |-> patcher.found, new |-> patcher.new,
                                    target |-> target]
    /\ UNCHANGED <<threshold, num_non_swaps, stack_swaps, stack_swap_triggers,
                   shadow, appmem, patch_ok, threshold_updates, swapcheck, shadowing,
                   shared_slowpath, adjust_esp_fastpath, fp, ev, nevents>>

\* the rest of a store that crossed a cache line becomes visible
PatcherStoreRest ==
    /\ patcher.pc = "store"
    /\ gencode' = [gencode EXCEPT
                       ![patcher.eflags_live][ESP_ADJUST_ABSOLUTE][patcher.i] =
                           patcher.target]
    /\ patcher' = [pc |-> "decode", cross |-> patcher.cross,
                   eflags_live |-> patcher.eflags_live, i |-> patcher.i + 1,
                   found |-> patcher.found + 1, new |-> patcher.new]
    /\ UNCHANGED <<threshold, num_non_swaps, stack_swaps, stack_swap_triggers,
                   shadow, appmem, patch_ok, threshold_updates, swapcheck, shadowing,
                   shared_slowpath, adjust_esp_fastpath, fp, ev, nevents>>

\* the loop over one fragment ends: ASSERT(found == 2), then the next
\* fragment; after the last one the caller stores the new threshold
PatcherNextFragment ==
    /\ patcher.pc = "decode"
    /\ \/ patcher.found >= 2
       \/ patcher.i > Len(gencode[patcher.eflags_live][ESP_ADJUST_ABSOLUTE])
    /\ patch_ok' = (patch_ok /\ patcher.found = 2)
    /\ IF patcher.eflags_live = 0
       THEN /\ patcher' = [patcher EXCEPT !.eflags_live = 1, !.i = 1, !.found = 0]
            /\ UNCHANGED <<threshold, threshold_updates, ev>>
       ELSE /\ patcher' = [pc |-> "idle", cross |-> patcher.cross]
            /\ threshold' = patcher.new
            /\ threshold_updates' = threshold_updates + 1
            /\ ev' = [op |-> "patchdone", old |-> threshold, new |-> patcher.new]
    /\ UNCHANGED <<num_non_swaps, stack_swaps, stack_swap_triggers, shadow,
                   appmem, gencode, swapcheck, shadowing, shared_slowpath,
                   adjust_esp_fastpath, fp, nevents>>

\* a thread enters the ESP_ADJUST_ABSOLUTE fragment with the delta in reg3
ThreadEnter ==
    /\ fp.pc = "idle"
    /\ nevents < MaxRaceRuns
    /\ \E e \in {0, 1}, delta \in {-131072, 1024, 131072} :
           fp' = [pc |-> "cmp_upper", eflags_live |-> e, reg3 |-> delta]
    /\ nevents' = nevents + 1
    /\ UNCHANGED <<heuristicVars, shadow, swapcheck, shadowing, shared_slowpath, patcher,
                   adjust_esp_fastpath, ev>>

\* the comparand a cmp of the executing thread fetches, with the threshold
\* in force and the one the patcher is installing
Fetched(i, sign) ==
    [op |-> "cmp", sign |-> sign, eflags_live |-> fp.eflags_live,
     imm |-> gencode[fp.eflags_live][ESP_ADJUST_ABSOLUTE][i],
     old |-> threshold,
     new |-> IF patcher.pc = "idle" THEN threshold ELSE patcher.new,
     racing |-> patcher.pc # "idle"]

\* cmp reg3, threshold; jg slowpath
ThreadCmpUpper ==
    /\ fp.pc = "cmp_upper"
    /\ ev' = Fetched(1, 1)
    /\ fp' = [fp EXCEPT !.pc = IF fp.reg3 > ev'.imm THEN "slowpath" ELSE "cmp_lower"]
    /\ UNCHANGED <<heuristicVars, shadow, swapcheck, shadowing, shared_slowpath, patcher,
                   adjust_esp_fastpath, nevents>>

\* cmp reg3, -threshold; jl slowpath
ThreadCmpLower ==
    /\ fp.pc = "cmp_lower"
    /\ ev' = Fetched(2, -1)
    /\ fp' = [fp EXCEPT !.pc = IF fp.reg3 < ev'.imm THEN "slowpath" ELSE "checked"]
    /\ UNCHANGED <<heuristicVars, shadow, swapcheck, shadowing, shared_slowpath, patcher,
                   adjust_esp_fastpath, nevents>>

\* the thread goes on past the two compares, or to the slow path
ThreadLeave ==
    /\ fp.pc \in {"slowpath", "checked"}
    /\ fp' = IdleFrag
    /\ UNCHANGED <<heuristicVars, shadow, swapcheck, shadowing, shared_slowpath, patcher,
                   adjust_esp_fastpath, ev, nevents>>

RaceNext ==
    \/ RaceLowerThreshold
    \/ RaceRaiseThreshold
    \/ PatcherDecode
    \/ PatcherStoreRest
    \/ PatcherNextFragment
    \/ ThreadEnter
    \/ ThreadCmpUpper
    \/ ThreadCmpLower
    \/ ThreadLeave

RaceInit ==
    \* the floor, and a threshold one bump away from 0x10000
    /\ threshold \in {MIN_SWAP_THRESHOLD, 61440}
    /\ num_non_swaps = 0
    /\ stack_swaps = 0
    /\ stack_swap_triggers = 0
    /\ shadow = StartupShadow
    /\ appmem = Uniform("stale")
    /\ gencode = generate_shared_esp_fastpath(threshold)
    /\ patch_ok = TRUE
    /\ threshold_updates = 0
    /\ shadowing = TRUE
    /\ shared_slowpath = TRUE
    /\ adjust_esp_fastpath = 0
    /\ fp = IdleFrag
    /\ swapcheck = IdleSwapCheck
    /\ patcher \in {[pc |-> "idle", cross |-> c] : c \in CacheLineLayouts}
    /\ ev = NoEvent
    /\ nevents = 0

RaceSpec == RaceInit /\ [][RaceNext]_vars

(***************************************************************************)
(* needs_esp_adjust: which writers of esp get the adjustment               *)
(* instrumentation.  An instruction is its opcode and the kind and value   *)
(* of its source operand; its destination is esp.                          *)
(***************************************************************************)
\* src is "imm" for an immediate, else the register or "mem"; val is the
\* immediate, or what the register or memory holds when the instruction runs
Writer(opc, src, val) == [opc |-> opc, src |-> src, val |-> val]

opc_is_push(opc) == opc \in {"OP_push", "OP_enter"}
opc_is_pop(opc) == opc \in {"OP_pop", "OP_ret", "OP_leave"}

\* tracking is SHADOW_STACK_POINTER()
needs_esp_adjust(inst, tracking) ==
    LET opc == inst.opc
        immed == inst.src = "imm"
    IN IF /\ opc_is_push(opc) \/ opc_is_pop(opc)
          /\ opc # "OP_ret" \/ ~immed
          /\ opc # "OP_enter"
          /\ opc # "OP_leave"
       THEN FALSE
       ELSE IF /\ ~tracking
               /\ \/ opc = "OP_inc"
                  \/ opc = "OP_ret"
                  \/ opc = "OP_leave"
                  \/ opc = "OP_add" /\ immed /\ inst.val >= 0
                  \/ opc = "OP_sub" /\ immed /\ inst.val <= 0
       THEN FALSE
       ELSE IF opc = "OP_sysenter" THEN FALSE
       ELSE IF opc \in {"OP_int", "OP_int3", "OP_into"} THEN FALSE
       ELSE IF opc = "OP_or" /\ inst.src = "esp" THEN FALSE
       ELSE TRUE

\* the value the instrumentation passes to handle_esp_adjust for the writer
AdjustArg(inst, ebp) ==
    CASE inst.opc = "OP_inc" -> 1
      [] inst.opc = "OP_dec" -> -1
      [] inst.opc = "OP_leave" -> ebp
      [] OTHER -> inst.val


EspWriters ==
    {Writer("OP_inc", "none", 0), Writer("OP_dec", "none", 0),
     Writer("OP_leave", "none", 0), Writer("OP_enter", "imm", 16),
     Writer("OP_ret", "imm", 8), Writer("OP_ret", "none", 0),
     Writer("OP_and", "imm", 16777200),
     Writer("OP_push", "eax", 0), Writer("OP_pop", "mem", 0),
     Writer("OP_sysenter", "none", 0), Writer("OP_int", "imm", 3),
     Writer("OP_or", "esp", 4096), Writer("OP_or", "eax", 0)}
    \cup {Writer(opc, "imm", v) : opc \in {"OP_add", "OP_sub"}, v \in {16, 0, -16}}
    \cup {Writer(opc, "eax", v) : opc \in {"OP_add", "OP_sub"}, v \in {16, -16}}
    \cup {Writer(opc, src, v) : opc \in {"OP_mov_ld", "OP_mov_st", "OP_lea", "OP_xchg"},
                              src \in {"eax"}, v \in {4064, 4128}}

\* instrumentation meets a writer of esp and asks needs_esp_adjust
NeedsEspAdjust ==
    /\ nevents < MaxEvents
    /\ \E inst \in EspWriters, ebp \in {4064, 4128} :
           ev' = [op |-> "needs", inst |-> inst, esp |-> 4096, ebp |-> ebp,
                  tracking |-> shadowing,
                  type |-> get_esp_adjust_type(inst.opc),
                  val |-> AdjustArg(inst, ebp),
                  needs |-> needs_esp_adjust(inst, shadowing)]
    /\ nevents' = nevents + 1
    /\ UNCHANGED <<heuristicVars, shadow, swapcheck, shadowing, shared_slowpath, patcher,
                   adjust_esp_fastpath, fp>>

NeedsNext == NeedsEspAdjust

NeedsSpec ==
    /\ InitWith(ShadowLayouts, ConfiguredThresholds, {TRUE})
    /\ [][NeedsNext]_vars

(***************************************************************************)
(* Vocabulary of the properties                                            *)
(***************************************************************************)
\* stack pointer the adjustment starts from (ret: after the return address)
EvOldSp(e) == IF e.type = ESP_ADJUST_RET_IMMED THEN e.esp + RETADDR_SIZE ELSE e.esp

\* stack pointer after the adjustment
EvNewSp(e) ==
    CASE e.type = ESP_ADJUST_ABSOLUTE -> e.val
      [] e.type = ESP_ADJUST_AND -> BitAnd(e.esp, e.val)
      [] e.type = ESP_ADJUST_NEGATIVE -> e.esp - e.val
      [] e.type = ESP_ADJUST_POSITIVE -> e.esp + e.val
      [] e.type = ESP_ADJUST_RET_IMMED -> e.esp + RETADDR_SIZE + e.val

Magnitude(x) == IF x < 0 THEN -x ELSE x

\* map new is map old with every byte of [lo, hi) set to v and no other byte
\* changed; both maps are constant between the probed addresses
EffectOnly(old, new, lo, hi, v) ==
    \A a \in DOMAIN old \cup DOMAIN new \cup {lo, hi} :
        MapAt(new, a) = IF a >= lo /\ a < hi THEN v ELSE MapAt(old, a)

\* the step is a run of the slow handler
IsAdjust(e) == e.op = "adjust"

\* the local update of event e, by direction: full tracking marks the claimed
\* range Undefined and the released range Unaddressable, lightweight mode
\* zero-fills the claimed range and ignores a shrink
LocalUpdate(e) ==
    LET old == EvOldSp(e)
        new == EvNewSp(e)
    IN IF shadowing
       THEN /\ appmem' = appmem
            /\ IF new < old
               THEN EffectOnly(shadow, shadow', new, old, SHADOW_UNDEFINED)
               ELSE EffectOnly(shadow, shadow', old, new, SHADOW_UNADDRESSABLE)
       ELSE /\ shadow' = shadow
            /\ IF new < old
               THEN EffectOnly(appmem, appmem', new, old, "zero")
               ELSE appmem' = appmem

(***************************************************************************)
(* Adjustments of one magnitude that recur inside one stack region, and no *)
(* stack size becoming known in between                                    *)
(***************************************************************************)
MaxAlarms == 70

\* mov esp, reg from 0x110000 inside [0x100000, 0x140000), down or up by d
RecurringInputs ==
    {Adj(ESP_ADJUST_ABSOLUTE, 1114112, 1114112 - d) : d \in {5120, 6144, 10240}}
    \cup {Adj(ESP_ADJUST_ABSOLUTE, 1114112, 1114112 + d) : d \in {5120, 6144, 10240}}

\* the slow handler runs for an event of the magnitude of the event before
RecurringAdjust ==
    \E e \in RecurringInputs :
        /\ ev.op = "adjust" =>
               Magnitude(EvNewSp(e) - e.esp) = Magnitude(EvNewSp(ev) - ev.esp)
        /\ \E r \in {handle_esp_adjust(State, shadowing, e.type, e.esp, e.val)} :
              /\ r.s.stack_swap_triggers <= MaxAlarms
              /\ SetState(r.s)
              /\ ev' = [op |-> "adjust", type |-> e.type, esp |-> e.esp,
                        val |-> e.val, lookup |-> r.lookup, swap |-> r.swap]
        /\ UNCHANGED <<swapcheck, shadowing, shared_slowpath, patcher, adjust_esp_fastpath,
                       fp, nevents>>

RecurringNext == RecurringAdjust

\* the adjustments keep occurring
RecurringSpec ==
    /\ InitWith({StartupShadow}, ConfiguredThresholds, {TRUE})
    /\ [][RecurringNext]_vars
    /\ WF_vars(RecurringAdjust)

(***************************************************************************)
(* Relative adjustments beyond the threshold, at sites instrumented with   *)
(* the fast path and at sites that call the slow handler                   *)
(***************************************************************************)
MaxBigRuns == 1

\* sub, add and ret n by 0x804 or 0x803, with the threshold at 0x800: inside
\* one shadow block, across the block boundary 0x110000 down and up, and
\* into the special block below 0x100000
BigRelativeInputs ==
    {Adj(ESP_ADJUST_NEGATIVE, 1114112, 2052),
     Adj(ESP_ADJUST_NEGATIVE, 1115136, 2052),
     Adj(ESP_ADJUST_NEGATIVE, 1114112, 2051),
     Adj(ESP_ADJUST_NEGATIVE, 1048592, 2052),
     Adj(ESP_ADJUST_POSITIVE, 1113088, 2052),
     Adj(ESP_ADJUST_RET_IMMED, 1114112, 2052)}

\* a site jumps to the fragment of its kind
FastCallBig ==
    /\ fp.pc \in {"idle"}
    /\ shadowing
    /\ nevents < MaxBigRuns
    /\ \E e \in BigRelativeInputs, fl \in {0, 1} :
          /\ fp' = [pc |-> "entry", type |-> e.type, eflags_live |-> fl,
                    esp |-> e.esp, val |-> e.val, retaddr |-> 12582912,
                    reg1 |-> 12582912, reg2 |-> 0,
                    reg3 |-> CallSiteArg(e.type, e.val),
                    slot0 |-> 0, slot1 |-> 0, writes |-> 0, s0 |-> State]
          /\ ev' = [op |-> "fastcall", type |-> e.type, esp |-> e.esp, val |-> e.val]
    /\ nevents' = nevents + 1
    /\ UNCHANGED <<heuristicVars, shadow, swapcheck, shadowing, shared_slowpath, patcher,
                   adjust_esp_fastpath>>

\* a site calls the slow handler
SlowCallBig ==
    /\ fp.pc \in {"idle"}
    /\ nevents < MaxBigRuns
    /\ \E e \in BigRelativeInputs : AdjustStep(e)
    /\ nevents' = nevents + 1

BigNext == FastCallBig \/ SlowCallBig \/ FragmentRuns

BigSpec ==
    /\ InitWith({Uniform(SHADOW_DEFINED)}, {MIN_SWAP_THRESHOLD}, BOOLEAN)
    /\ [][BigNext]_vars

(***************************************************************************)
(* The lightweight mode at a site instrumented with the fast path: the     *)
(* zero-fill loop that instrument_esp_adjust_fastpath emits inline         *)
(***************************************************************************)
MaxInlineRuns == 1

\* sub esp by 8, 3, 0 and by a negative register; add esp by 8 and by a
\* negative register; dec esp; mov esp to -8, +8, the same, an unaligned
\* pair, another stack below (a swap), and far down inside its own stack
InlineInputs ==
    {Adj(ESP_ADJUST_NEGATIVE, 4096, v) : v \in {8, 3, 0, -8}}
    \cup {Adj(ESP_ADJUST_POSITIVE, 4096, v) : v \in {8, -8, -1}}
    \cup {Adj(ESP_ADJUST_ABSOLUTE, 4096, v) : v \in {4088, 4104, 4096, 0}}
    \cup {Adj(ESP_ADJUST_ABSOLUTE, 4098, 4090),
          Adj(ESP_ADJUST_ABSOLUTE, 1114112, 1112060)}

\* the site: the operand into reg_mod (negated for sub), esp into reg1, the
\* end of the loop, and the test that the stack pointer goes down
InlineEntry ==
    /\ fp.pc \in {"idle"}
    /\ ~shadowing
    /\ nevents < MaxInlineRuns
    /\ \E e \in InlineInputs :
          LET arg == CallSiteArg(e.type, e.val)
              reg_mod == IF e.type # ESP_ADJUST_ABSOLUTE THEN arg + e.esp ELSE arg
          IN /\ fp' = [pc |-> IF reg_mod >= e.esp THEN "inline_retaddr"
                                ELSE "inline_loop_repeat",
                       type |-> e.type, esp |-> e.esp, val |-> e.val,
                       reg1 |-> e.esp, reg_mod |-> reg_mod, s0 |-> State]
             /\ ev' = [op |-> "inlinecall", type |-> e.type, esp |-> e.esp,
                       val |-> e.val]
    /\ nevents' = nevents + 1
    /\ UNCHANGED <<heuristicVars, shadow, swapcheck, shadowing, shared_slowpath, patcher,
                   adjust_esp_fastpath>>

\* loop_repeat: step down a dword, leave below the end, else store a zero dword
InlineLoopRepeat ==
    /\ fp.pc = "inline_loop_repeat"
    /\ LET reg1 == fp.reg1 - 4
       IN IF reg1 < fp.reg_mod
          THEN /\ fp' = [fp EXCEPT !.reg1 = reg1, !.pc = "inline_retaddr"]
               /\ UNCHANGED appmem
          ELSE /\ fp' = [fp EXCEPT !.reg1 = reg1]
               /\ appmem' = memset_zero(appmem, reg1, 4)
    /\ UNCHANGED <<threshold, num_non_swaps, stack_swaps, stack_swap_triggers,
                   gencode, patch_ok, threshold_updates, shadow, swapcheck, shadowing,
                   shared_slowpath, patcher, adjust_esp_fastpath, ev, nevents>>

\* retaddr: the application's instruction follows
InlineReturn ==
    /\ fp.pc = "inline_retaddr"
    /\ fp' = [fp EXCEPT !.pc = "idle"]
    /\ ev' = [op |-> "inlinedone", type |-> fp.type, esp |-> fp.esp, val |-> fp.val]
    /\ UNCHANGED <<heuristicVars, shadow, swapcheck, shadowing, shared_slowpath, patcher,
                   adjust_esp_fastpath, nevents>>

InlineNext == InlineEntry \/ InlineLoopRepeat \/ InlineReturn

InlineInit ==
    /\ InitWith({StartupShadow}, ConfiguredThresholds, BOOLEAN)
    /\ shadowing = FALSE

InlineSpec == InlineInit /\ [][InlineNext]_vars

(***************************************************************************)
(* check_stack_swap run by several threads at once.  num_non_swaps is a    *)
(* function-static int and options.stack_swap_threshold a global; the      *)
(* false-alarm branch reads and writes both with plain loads and stores    *)
(* and takes no lock, so the steps of two threads interleave freely.       *)
(***************************************************************************)
MaxSwapChecks == 36

\* STATS_INC(stack_swap_triggers); the bounds test has found an intra-stack
\* adjustment
SwapCheckEnter ==
    \E t \in SwapThreads :
        /\ swapcheck.th[t].pc = "idle"
        /\ swapcheck.calls < MaxSwapChecks
        /\ stack_swap_triggers' = stack_swap_triggers + 1
        /\ swapcheck' = [swapcheck EXCEPT !.calls = @ + 1,
                                          !.th[t] = [pc |-> "load"]]
        /\ UNCHANGED <<threshold, num_non_swaps, stack_swaps, shadow, appmem,
                       gencode, patch_ok, threshold_updates, shadowing,
                       shared_slowpath, adjust_esp_fastpath, fp, patcher, ev,
                       nevents>>

\* num_non_swaps++: the load of the old value
SwapCheckLoad ==
    \E t \in SwapThreads :
        /\ swapcheck.th[t].pc = "load"
        /\ swapcheck' = [swapcheck EXCEPT
                            !.th[t] = [pc |-> "store", tmp |-> num_non_swaps]]
        /\ UNCHANGED <<heuristicVars, shadow, appmem, gencode, patch_ok,
                       threshold_updates, shadowing, shared_slowpath,
                       adjust_esp_fastpath, fp, patcher, ev, nevents>>

\* num_non_swaps++: the store of old + 1, then the test of the old value
\* against MAX_NUMBER_NON_SWAPS
SwapCheckStore ==
    \E t \in SwapThreads :
        /\ swapcheck.th[t].pc = "store"
        /\ num_non_swaps' = swapcheck.th[t].tmp + 1
        /\ swapcheck' = [swapcheck EXCEPT !.th[t] =
                            IF NonSwapCeilingExceeded(swapcheck.th[t].tmp)
                            THEN [pc |-> "reset"]
                            ELSE [pc |-> "idle"]]
        /\ UNCHANGED <<threshold, stack_swaps, stack_swap_triggers, shadow,
                       appmem, gencode, patch_ok, threshold_updates, shadowing,
                       shared_slowpath, adjust_esp_fastpath, fp, patcher, ev,
                       nevents>>

\* num_non_swaps = 0
SwapCheckReset ==
    \E t \in SwapThreads :
        /\ swapcheck.th[t].pc = "reset"
        /\ num_non_swaps' = 0
        /\ swapcheck' = [swapcheck EXCEPT !.th[t] = [pc |-> "arg"]]
        /\ UNCHANGED <<threshold, stack_swaps, stack_swap_triggers, shadow,
                       appmem, gencode, patch_ok, threshold_updates, shadowing,
                       shared_slowpath, adjust_esp_fastpath, fp, patcher, ev,
                       nevents>>

\* the argument options.stack_swap_threshold + PAGE_SIZE is evaluated
SwapCheckArg ==
    \E t \in SwapThreads :
        /\ swapcheck.th[t].pc = "arg"
        /\ swapcheck' = [swapcheck EXCEPT !.th[t] =
                            [pc |-> "update", arg |-> threshold + PAGE_SIZE]]
        /\ UNCHANGED <<heuristicVars, shadow, appmem, gencode, patch_ok,
                       threshold_updates, shadowing, shared_slowpath,
                       adjust_esp_fastpath, fp, patcher, ev, nevents>>

\* update_stack_swap_threshold(drcontext, arg); return false
SwapCheckUpdate ==
    \E t \in SwapThreads :
        /\ swapcheck.th[t].pc = "update"
        /\ SetState(update_stack_swap_threshold(State, swapcheck.th[t].arg))
        /\ swapcheck' = [swapcheck EXCEPT !.th[t] = [pc |-> "idle"]]
        /\ ev' = [op |-> "bump", thread |-> t, old |-> threshold,
                  new |-> swapcheck.th[t].arg]
        /\ UNCHANGED <<shadowing, shared_slowpath, adjust_esp_fastpath, fp,
                       patcher, nevents>>

SwapRaceNext ==
    \/ SwapCheckEnter
    \/ SwapCheckLoad
    \/ SwapCheckStore
    \/ SwapCheckReset
    \/ SwapCheckArg
    \/ SwapCheckUpdate

SwapRaceSpec ==
    /\ InitWith({StartupShadow}, {MIN_SWAP_THRESHOLD}, {TRUE})
    /\ [][SwapRaceNext]_vars

\* the state after n calls of the false-alarm branch, one after the other
RECURSIVE SequentialCalls(_, _)
SequentialCalls(s, n) ==
    IF n = 0 THEN s ELSE SequentialCalls(NoteNonSwap(s), n - 1)

(***************************************************************************)
(* C26: concurrent false alarms leave the counter and the threshold as     *)
(* some sequential order of the calls would: once every call has returned, *)
(* the counter, the threshold and the number of threshold updates are      *)
(* those of the same number of calls run one after the other (no increment *)
(* lost, one bump of one page per crossing of the ceiling).                *)
(***************************************************************************)
C26_SequentialOrder ==
    (\A t \in SwapThreads : swapcheck.th[t].pc = "idle") =>
        LET start == [State EXCEPT
                         !.num_non_swaps = 0,
                         !.threshold = MIN_SWAP_THRESHOLD,
                         !.threshold_updates = 0,
                         !.gencode = generate_shared_esp_fastpath(MIN_SWAP_THRESHOLD)]
            s == SequentialCalls(start, swapcheck.calls)
        IN /\ num_non_swaps = s.num_non_swaps
           /\ threshold = s.threshold
           /\ threshold_updates = s.threshold_updates

(***************************************************************************)
(* C1: the global stack-swap threshold is never below MIN_SWAP_THRESHOLD,  *)
(* whatever sequence of swap-heuristic calls and stack-size notifications  *)
(* has run.                                                                *)
(***************************************************************************)
C1_ThresholdFloor == threshold >= MIN_SWAP_THRESHOLD

\* the threshold was bumped and later lowered again by a small stack's size
C1_Witness ==
    /\ ev.op = "size"
    /\ ev.size < MIN_SWAP_THRESHOLD
    /\ threshold_updates >= 2
    /\ stack_swap_triggers > MAX_NUMBER_NON_SWAPS
    /\ threshold = MIN_SWAP_THRESHOLD

(***************************************************************************)
(* C2: an operation sets the NonSwapCounter back to 0 if and only if that  *)
(* same operation raised the threshold by one page.                        *)
(***************************************************************************)
C2_ResetIffBump ==
    [][(num_non_swaps # 0 /\ num_non_swaps' = 0)
           <=> (threshold' = threshold + PAGE_SIZE)]_vars

\* a false alarm has just bumped the threshold and reset the counter
C2_Witness ==
    /\ IsAdjust(ev) /\ ev.lookup /\ ~ev.swap
    /\ num_non_swaps = 0
    /\ threshold_updates >= 1
    /\ stack_swap_triggers > MAX_NUMBER_NON_SWAPS

(***************************************************************************)
(* C3: counting from NonSwapCounter = 0, the 33rd false alarm raises the   *)
(* threshold by exactly one page, resets the counter and calls the         *)
(* threshold update once; the 32 before it leave the threshold alone.      *)
(* With the counter at n, n false alarms have passed since it was 0.       *)
(***************************************************************************)
C3_BumpOn33rd ==
    [][(IsAdjust(ev') /\ ev'.lookup /\ ~ev'.swap /\ num_non_swaps <= MAX_NUMBER_NON_SWAPS)
           => IF num_non_swaps = MAX_NUMBER_NON_SWAPS
              THEN /\ threshold' = threshold + PAGE_SIZE
                   /\ num_non_swaps' = 0
                   /\ threshold_updates' = threshold_updates + 1
              ELSE threshold' = threshold]_vars

(***************************************************************************)
(* C4: an AbsoluteSet adjustment with |new_sp - old_sp| <= threshold does  *)
(* no region lookup (swap-trigger counter, swap counter, NonSwapCounter    *)
(* and threshold unchanged) and applies the local update of its direction. *)
(***************************************************************************)
C4_SmallAbsoluteIsLocal ==
    [][(IsAdjust(ev') /\ ev'.type = ESP_ADJUST_ABSOLUTE
            /\ Magnitude(ev'.val - ev'.esp) <= threshold)
           => /\ stack_swap_triggers' = stack_swap_triggers
              /\ stack_swaps' = stack_swaps
              /\ num_non_swaps' = num_non_swaps
              /\ threshold' = threshold
              /\ LocalUpdate(ev')]_vars

\* an absolute adjustment of exactly the threshold's magnitude was applied
\* as a shrink without any lookup
C4_Witness ==
    /\ IsAdjust(ev) /\ ev.type = ESP_ADJUST_ABSOLUTE
    /\ ev.val - ev.esp = threshold
    /\ shadowing
    /\ stack_swap_triggers = 0
    /\ MapAt(shadow, ev.esp) = SHADOW_UNADDRESSABLE
    /\ MapAt(shadow, ev.val) # SHADOW_UNADDRESSABLE

(***************************************************************************)
(* C5: when check_stack_swap classifies an adjustment as a genuine swap,   *)
(* no shadow state changes, no memory is zero-filled, the threshold and    *)
(* the NonSwapCounter are unchanged, and the confirmed-swap and            *)
(* swap-trigger counters each increase by exactly one.                     *)
(***************************************************************************)
C5_SwapTouchesNothing ==
    [][(IsAdjust(ev') /\ ev'.swap)
           => /\ shadow' = shadow
              /\ appmem' = appmem
              /\ threshold' = threshold
              /\ num_non_swaps' = num_non_swaps
              /\ stack_swaps' = stack_swaps + 1
              /\ stack_swap_triggers' = stack_swap_triggers + 1]_vars

\* a swap out of a stack whose shadow an earlier adjustment had marked
C5_Witness ==
    /\ IsAdjust(ev) /\ ev.swap
    /\ stack_swaps = 1
    /\ shadowing
    /\ DOMAIN shadow # {0}
    /\ MapAt(shadow, ev.esp - 1) # MapAt(shadow, ev.esp)

(***************************************************************************)
(* C6: an AbsoluteSet or MaskAnd adjustment with |delta| > threshold is a  *)
(* genuine swap if and only if the bounds of the region of the OLD pointer *)
(* do not resolve or the new pointer lies outside [base, base+size);       *)
(* otherwise it is processed as an ordinary growth or shrink.              *)
(***************************************************************************)
C6_SwapIffOutsideRegion ==
    [][(IsAdjust(ev') /\ ev'.type \in {ESP_ADJUST_ABSOLUTE, ESP_ADJUST_AND}
            /\ Magnitude(EvNewSp(ev') - ev'.esp) > threshold)
           => LET b == get_stack_region_bounds(ev'.esp)
                  outside == \/ ~b.ok
                             \/ EvNewSp(ev') < b.base
                             \/ EvNewSp(ev') >= b.base + b.size
              IN /\ ev'.swap <=> outside
                 /\ (stack_swaps' = stack_swaps + 1) <=> outside
                 /\ ~outside => /\ stack_swaps' = stack_swaps
                                /\ LocalUpdate(ev')]_vars

\* a pointer set to exactly base+size of its own region was taken as a swap
C6_Witness ==
    /\ IsAdjust(ev) /\ ev.type = ESP_ADJUST_ABSOLUTE /\ ev.swap
    /\ get_stack_region_bounds(ev.esp).ok
    /\ ev.val = get_stack_region_bounds(ev.esp).base
                    + get_stack_region_bounds(ev.esp).size

(***************************************************************************)
(* C7: full tracking, threshold 2048, old_sp = 0x1000, AbsoluteSet to      *)
(* new_sp = 0x1000 - 4096 = 0, bounds of old_sp resolved as                *)
(* [0x0F00, 0x2000).  As claimed: classified not-a-swap and [new_sp,       *)
(* old_sp) becomes Undefined.                                              *)
(***************************************************************************)
C7_Scenario(e) ==
    /\ IsAdjust(e) /\ e.type = ESP_ADJUST_ABSOLUTE
    /\ e.esp = 4096 /\ e.val = 4096 - 4096
    /\ shadowing /\ threshold = 2048
    /\ get_stack_region_bounds(e.esp) = [ok |-> TRUE, base |-> 3840, size |-> 4352]

C7_ScenarioNotSwap ==
    [][C7_Scenario(ev')
           => /\ ~ev'.swap
              /\ EffectOnly(shadow, shadow', 0, 4096, SHADOW_UNDEFINED)]_vars

\* C7 as amended: new_sp = 0 lies outside [0x0F00, 0x2000), so the adjustment
\* is classified a genuine swap and the shadow state is left unchanged.
C7_ScenarioIsSwap ==
    [][C7_Scenario(ev')
           => /\ ev'.swap
              /\ stack_swaps' = stack_swaps + 1
              /\ shadow' = shadow]_vars

\* the scenario ran on a stack whose shadow is live
C7_Witness ==
    /\ C7_Scenario(ev)
    /\ ev.swap
    /\ MapAt(shadow, 0) = SHADOW_UNADDRESSABLE
    /\ MapAt(shadow, 4096) = SHADOW_DEFINED

(***************************************************************************)
(* C8: in full tracking, for every event of a specialized kind, a run of   *)
(* the shared fast-path fragment, bails to the slow callback included,     *)
(* leaves exactly the shadow state that handle_esp_adjust leaves when      *)
(* applied to the same event in the state the run started from.            *)
(***************************************************************************)
C8_PathEquivalence ==
    (ev.op = "fastdone")
        => shadow = handle_esp_adjust(fp.s0, TRUE, ev.type, ev.esp, ev.val).s.shadow

(***************************************************************************)
(* C9: in full tracking a processed adjustment (no swap) changes shadow    *)
(* state only between the old and the new stack pointer: growth marks      *)
(* [new_sp, old_sp) Undefined, shrink marks [old_sp, new_sp)               *)
(* Unaddressable, every granule outside is unchanged, and delta = 0        *)
(* changes nothing.  Stated of a completed run of the fast-path fragment.  *)
(***************************************************************************)
C9_EffectOnlyInRange ==
    (ev.op = "fastdone" /\ ~ev.swap)
        => LET old == EvOldSp(ev)
               new == EvNewSp(ev)
           IN IF new < old
              THEN EffectOnly(fp.s0.shadow, shadow, new, old, SHADOW_UNDEFINED)
              ELSE IF new > old
              THEN EffectOnly(fp.s0.shadow, shadow, old, new, SHADOW_UNADDRESSABLE)
              ELSE shadow = fp.s0.shadow

(***************************************************************************)
(* C10: in full tracking, for growth and for shrink, the shadow update     *)
(* leaves out the granule at the new top of stack: the granule at new_sp   *)
(* keeps the state it had.                                                 *)
(***************************************************************************)
\* a processed adjustment: the handler ran, it was no swap, delta # 0
Processed(e) == IsAdjust(e) /\ ~e.swap /\ EvNewSp(e) # EvOldSp(e)

\* the GRANULE bytes from address a keep their state
GranuleKept(a) == \A i \in 0 .. GRANULE - 1 : MapAt(shadow', a + i) = MapAt(shadow, a + i)

C10_NewTopExcluded ==
    [][(shadowing /\ Processed(ev')) => GranuleKept(EvNewSp(ev'))]_vars

\* C10 as amended: in the slow handler a shrink leaves out the granule at
\* new_sp; a growth includes the byte at new_sp, which becomes Undefined, and
\* leaves out the granule at old_sp.
C10_NewTopExcludedOnShrinkOnly ==
    [][(shadowing /\ Processed(ev'))
           => IF EvNewSp(ev') > EvOldSp(ev')
              THEN GranuleKept(EvNewSp(ev'))
              ELSE /\ MapAt(shadow', EvNewSp(ev')) = SHADOW_UNDEFINED
                   /\ GranuleKept(EvOldSp(ev'))]_vars

\* a growth turned the defined byte at new_sp Undefined
C10_Witness ==
    /\ shadowing /\ Processed(ev)
    /\ EvNewSp(ev) < EvOldSp(ev)
    /\ MapAt(shadow, EvNewSp(ev)) = SHADOW_UNDEFINED
    /\ MapAt(shadow, EvOldSp(ev)) = SHADOW_DEFINED
    /\ MapAt(shadow, EvNewSp(ev) - 1) = SHADOW_DEFINED

(***************************************************************************)
(* C11: for ret n at stack pointer old_sp the pop of the return address    *)
(* comes first: the range marked Unaddressable is exactly                  *)
(* [old_sp+4, old_sp+4+n) and the slot [old_sp, old_sp+4) of the return    *)
(* address is not touched, whether the fragment walks (a shadow-block      *)
(* re-lookup included) or bails to the slow handler.                       *)
(***************************************************************************)
C11_RetPopsFirst ==
    (ev.op = "fastdone" /\ ev.type = ESP_ADJUST_RET_IMMED)
        => /\ EffectOnly(fp.s0.shadow, shadow, ev.esp + RETADDR_SIZE,
                         ev.esp + RETADDR_SIZE + ev.val, SHADOW_UNADDRESSABLE)
           /\ \A i \in 0 .. RETADDR_SIZE - 1 :
                  MapAt(shadow, ev.esp + i) = MapAt(fp.s0.shadow, ev.esp + i)

\* a ret 32 walked across the block boundary 0x110000 on a Defined stack
C11_Witness ==
    /\ ev.op = "fastdone" /\ ev.type = ESP_ADJUST_RET_IMMED /\ ev.via = "walk"
    /\ BlockOf(ev.esp) # BlockOf(ev.esp + RETADDR_SIZE + ev.val - 1)
    /\ MapAt(shadow, ev.esp) = SHADOW_DEFINED
    /\ MapAt(shadow, ev.esp + RETADDR_SIZE) = SHADOW_UNADDRESSABLE
    /\ MapAt(shadow, ev.esp + RETADDR_SIZE + ev.val - 1) = SHADOW_UNADDRESSABLE
    /\ MapAt(shadow, ev.esp + RETADDR_SIZE + ev.val) = SHADOW_DEFINED

(***************************************************************************)
(* C12: in lightweight mode the slow handler never changes shadow state;   *)
(* a growth that reaches the update zero-fills exactly the bytes of        *)
(* [new_sp, old_sp); a shrink, a zero delta and a swap change no memory.   *)
(***************************************************************************)
C12_LightweightZeroFill ==
    [][(~shadowing /\ IsAdjust(ev'))
           => /\ shadow' = shadow
              /\ IF ~ev'.swap /\ EvNewSp(ev') < EvOldSp(ev')
                 THEN EffectOnly(appmem, appmem', EvNewSp(ev'), EvOldSp(ev'), "zero")
                 ELSE appmem' = appmem]_vars

\* a growth zero-filled its range and no byte around it
C12_Witness ==
    /\ ~shadowing /\ IsAdjust(ev) /\ ~ev.swap
    /\ EvNewSp(ev) > 0 /\ EvNewSp(ev) < EvOldSp(ev)
    /\ MapAt(appmem, EvNewSp(ev)) = "zero"
    /\ MapAt(appmem, EvOldSp(ev) - 1) = "zero"
    /\ MapAt(appmem, EvNewSp(ev) - 1) = "stale"
    /\ MapAt(appmem, EvOldSp(ev)) = "stale"

(***************************************************************************)
(* C13: check_stack_size_vs_threshold(size) sets the threshold to          *)
(* MIN_SWAP_THRESHOLD when size is below the current threshold (never to   *)
(* the size), leaves it alone otherwise, never raises it and never touches *)
(* the NonSwapCounter.                                                     *)
(***************************************************************************)
C13_SizeLowersToFloor ==
    [][(ev'.op = "size")
           => /\ threshold' = IF ev'.size < threshold
                              THEN MIN_SWAP_THRESHOLD
                              ELSE threshold
              /\ threshold' <= threshold
              /\ num_non_swaps' = num_non_swaps]_vars

\* a stack of size 1024 found at threshold 4096 lowered it to 2048
C13_Witness ==
    /\ ev.op = "size" /\ ev.size = 1024
    /\ threshold = MIN_SWAP_THRESHOLD
    /\ threshold_updates = 1
    /\ stack_swap_triggers = 0
    /\ gencode[0][ESP_ADJUST_ABSOLUTE][1] = MIN_SWAP_THRESHOLD

(***************************************************************************)
(* C14: the bounds of an address are resolved by trying the heap-          *)
(* allocation index, then the anonymous-mapping index, then the OS query,  *)
(* a later source being consulted whenever every earlier one failed;       *)
(* failure only when all fail.  Stated of every lookup the handler makes.  *)
(***************************************************************************)
\* the first source, in the order of the claim, that resolves addr
FirstResolving(addr) ==
    IF malloc_large_lookup(addr).ok THEN malloc_large_lookup(addr)
    ELSE IF mmap_anon_lookup(addr).ok THEN mmap_anon_lookup(addr)
    ELSE dr_query_memory(addr)

C14_FallThroughOrder ==
    (IsAdjust(ev) /\ ev.lookup)
        => get_stack_region_bounds(ev.esp) = FirstResolving(ev.esp)

\* C14 as amended: for an address inside a heap region the heap-allocation
\* index alone answers, and its failure is the failure of the lookup even where
\* the OS query resolves the address; for an address outside every heap region
\* the anonymous-mapping index answers if it resolves, else the OS query, and
\* the lookup fails only when both fail.
C14_HeapIndexIsFinal ==
    (IsAdjust(ev) /\ ev.lookup)
        => LET b == get_stack_region_bounds(ev.esp)
           IN IF is_in_heap_region(ev.esp)
              THEN /\ b = malloc_large_lookup(ev.esp)
                   /\ ~malloc_large_lookup(ev.esp).ok => (~b.ok /\ ev.swap)
              ELSE /\ mmap_anon_lookup(ev.esp).ok => b = mmap_anon_lookup(ev.esp)
                   /\ ~mmap_anon_lookup(ev.esp).ok => b = dr_query_memory(ev.esp)
                   /\ b.ok <=> (mmap_anon_lookup(ev.esp).ok \/ dr_query_memory(ev.esp).ok)

\* a small malloc the OS query would resolve: the lookup failed and the
\* adjustment inside the heap mapping was taken as a swap
C14_Witness ==
    /\ IsAdjust(ev) /\ ev.lookup /\ ev.swap
    /\ is_in_heap_region(ev.esp)
    /\ ~malloc_large_lookup(ev.esp).ok
    /\ dr_query_memory(ev.esp).ok
    /\ Inside(EvNewSp(ev), dr_query_memory(ev.esp))

(***************************************************************************)
(* C15: when the patcher runs with comparands +old and -old embedded in    *)
(* both ESP_ADJUST_ABSOLUTE fragments, exactly those two immediates of     *)
(* each variant are overwritten, with +new and -new; every other immediate *)
(* of every fragment is unchanged; a fragment in which the matching        *)
(* comparands are not exactly two is a fatal failure.                      *)
(***************************************************************************)
\* the comparands of fragment code that embed thresh
Matching(code, thresh) == {i \in DOMAIN code : code[i] \in {thresh, -thresh}}

C15_PatchExactlyTwo ==
    [][(ev'.op = "patch")
           => LET old == threshold
                  new == ev'.new
                  abs(e) == gencode[e][ESP_ADJUST_ABSOLUTE]
                  abs1(e) == gencode'[e][ESP_ADJUST_ABSOLUTE]
              IN /\ \A e \in {0, 1}, ty \in FastTypes \ {ESP_ADJUST_ABSOLUTE} :
                        gencode'[e][ty] = gencode[e][ty]
                 /\ \A e \in {0, 1} : \A i \in DOMAIN abs(e) \ Matching(abs(e), old) :
                        abs1(e)[i] = abs(e)[i]
                 /\ (\A e \in {0, 1} : Cardinality(Matching(abs(e), old)) = 2)
                        => /\ patch_ok'
                           /\ \A e \in {0, 1} :
                                  /\ abs1(e)[1] = new
                                  /\ abs1(e)[2] = -new
                                  /\ Len(abs1(e)) = Len(abs(e))
                 /\ (\E e \in {0, 1} : Cardinality(Matching(abs(e), old)) # 2)
                        => ~patch_ok']_vars

\* a bump rewrote both variants, after an earlier patch
C15_Witness ==
    /\ ev.op = "patch" /\ ev.new = ev.old + PAGE_SIZE
    /\ patch_ok
    /\ threshold_updates >= 2
    /\ gencode = generate_shared_esp_fastpath(ev.new)
    /\ gencode # generate_shared_esp_fastpath(ev.old)

(***************************************************************************)
(* C16: with the check enabled and the bounds [base, base+size) of addr    *)
(* resolved, handle_push_addressable marks exactly                         *)
(* [max(addr - PAGE_SIZE, base), start_addr) Unaddressable: at most one    *)
(* page, nothing below base, no byte of the write [start_addr,             *)
(* start_addr+sz); it then gives size to the threshold sizing policy and   *)
(* returns handled = TRUE.                                                 *)
(***************************************************************************)
C16_PushMarksPageBelow ==
    [][(ev'.op = "push" /\ ev'.check_push /\ get_stack_region_bounds(ev'.addr).ok)
           => LET b == get_stack_region_bounds(ev'.addr)
                  lo == IF ev'.addr - PAGE_SIZE > b.base
                        THEN ev'.addr - PAGE_SIZE ELSE b.base
              IN /\ EffectOnly(shadow, shadow', lo, ev'.start_addr, SHADOW_UNADDRESSABLE)
                 /\ ev'.start_addr - lo <= PAGE_SIZE
                 /\ lo >= b.base
                 /\ \A i \in 0 .. ev'.sz - 1 :
                        MapAt(shadow', ev'.start_addr + i) = MapAt(shadow, ev'.start_addr + i)
                 /\ threshold' = IF b.size < threshold
                                 THEN MIN_SWAP_THRESHOLD ELSE threshold
                 /\ ev'.handled]_vars

\* a push on a Defined stack whose region starts less than a page below:
\* marked down to the region start only, and the threshold lowered
C16_Witness ==
    /\ ev.op = "push" /\ ev.handled
    /\ get_stack_region_bounds(ev.addr).base > ev.addr - PAGE_SIZE
    /\ MapAt(shadow, get_stack_region_bounds(ev.addr).base) = SHADOW_UNADDRESSABLE
    /\ MapAt(shadow, get_stack_region_bounds(ev.addr).base - 1) = SHADOW_DEFINED
    /\ MapAt(shadow, ev.start_addr - 1) = SHADOW_UNADDRESSABLE
    /\ MapAt(shadow, ev.start_addr) = SHADOW_DEFINED
    /\ threshold = MIN_SWAP_THRESHOLD /\ threshold_updates = 1

(***************************************************************************)
(* C17: handle_push_addressable returns handled = TRUE if and only if the  *)
(* check is enabled and the bounds of the written address resolve; when it *)
(* returns FALSE no shadow granule changes, the threshold and the          *)
(* NonSwapCounter are unchanged and nothing fatal happens: unresolved      *)
(* bounds only log an error and optionally pause.                          *)
(***************************************************************************)
C17_HandledIffResolved ==
    [][(ev'.op = "push")
           => /\ ev'.handled <=> (ev'.check_push /\ get_stack_region_bounds(ev'.addr).ok)
              /\ ~ev'.handled
                     => /\ shadow' = shadow
                        /\ appmem' = appmem
                        /\ threshold' = threshold
                        /\ num_non_swaps' = num_non_swaps
                        /\ gencode' = gencode
                        /\ patch_ok' = patch_ok
                        /\ ev'.err <=> ev'.check_push
                        /\ ev'.paused => ev'.err]_vars

\* a push into a small malloc: logged, paused, nothing changed
C17_Witness ==
    /\ ev.op = "push" /\ ~ev.handled /\ ev.check_push
    /\ ev.err /\ ev.paused
    /\ is_in_heap_region(ev.addr)
    /\ dr_query_memory(ev.addr).ok
    /\ nevents = 1
    /\ shadow = Uniform(SHADOW_DEFINED)

(***************************************************************************)
(* C18: when the forward decode of the slow callback meets a control       *)
(* transfer before an instruction that writes esp, the call is fatal: no   *)
(* shadow update and no zero-fill is applied for it, and the process makes *)
(* no further step.                                                        *)
(***************************************************************************)
\* a control transfer comes before every instruction of code that writes esp
CtiFirst(code) ==
    \E i \in DOMAIN code :
        /\ code[i].cti /\ ~code[i].writes_esp
        /\ \A j \in 1 .. i - 1 : ~code[j].writes_esp

C19_OldOrNewComparand ==
    ev.op = "cmp" => ev.imm \in {ev.sign * ev.old, ev.sign * ev.new}

\* the forms the lightweight mode leaves out
ShrinkOnlyForm(inst) ==
    \/ inst.opc \in {"OP_inc", "OP_leave"}
    \/ inst.opc = "OP_ret" /\ inst.src = "imm"
    \/ inst.opc = "OP_add" /\ inst.src = "imm" /\ inst.val >= 0
    \/ inst.opc = "OP_sub" /\ inst.src = "imm" /\ inst.val <= 0

(***************************************************************************)
(* C20: in lightweight mode needs_esp_adjust leaves out, beyond what it    *)
(* leaves out in both modes, only writers that never lower esp (inc, ret   *)
(* with immediate, leave, add of an immediate >= 0, sub of an immediate    *)
(* <= 0); every writer that may lower esp still needs the instrumentation; *)
(* with full tracking none of the shrink-only forms is left out.           *)
(***************************************************************************)
C20_LightweightSkipsShrinkOnly ==
    ev.op = "needs" =>
        /\ (~ev.tracking /\ ~ev.needs /\ needs_esp_adjust(ev.inst, TRUE))
               => /\ ShrinkOnlyForm(ev.inst)
                  /\ EvNewSp(ev) >= ev.esp
        /\ (/\ ~ev.tracking
            /\ \/ ev.inst.opc \in {"OP_dec", "OP_enter", "OP_mov_ld", "OP_mov_st",
                                   "OP_lea", "OP_xchg", "OP_and"}
               \/ ev.inst.opc = "OP_sub" /\ ev.inst.src = "imm" /\ ev.inst.val > 0
               \/ ev.inst.opc = "OP_add" /\ ev.inst.src = "imm" /\ ev.inst.val < 0
               \/ ev.inst.opc \in {"OP_add", "OP_sub"} /\ ev.inst.src # "imm")
               => ev.needs
        /\ (ev.tracking /\ ShrinkOnlyForm(ev.inst)) => ev.needs

\* the total signed adjustment of the event the fragment is working on
FragDelta == EvNewSp(fp) - FragStartSp(fp.type, fp.esp)

(***************************************************************************)
(* C21: whenever the fragment is about to look up shadow memory, at entry  *)
(* and after leaving a shadow block with reg3 bytes remaining, the address *)
(* in reg1 is walk_start + (delta - remaining), for every kind, absolute   *)
(* included.                                                               *)
(***************************************************************************)
C21_ResumeAddress ==
    fp.pc = "loop_shadow_lookup" =>
        fp.reg1 = FragStartSp(fp.type, fp.esp) + (FragDelta - fp.reg3)

(***************************************************************************)
(* C22: every invocation of a fast-path fragment ends, and ends with one   *)
(* jump to the return address its site passed in; each store of the walk   *)
(* brings the remaining count 4 closer to 0, a walk that runs to its end   *)
(* has made exactly |delta|/4 stores, and the site resumes only after the  *)
(* walk is finished or the slow path has run.                              *)
(***************************************************************************)
C22_TerminatesAndReturns ==
    /\ [](ev.op = "fastdone" /\ fp.pc = "idle" =>
             /\ ev.ret = fp.retaddr
             /\ ev.via = "walk" =>
                    /\ fp.reg3 = 0
                    /\ fp.writes * GRANULE = Magnitude(FragDelta))
    /\ [][fp.pc \in {"loop_pop_repeat", "loop_push_repeat"} =>
              /\ Magnitude(fp'.reg3) = Magnitude(fp.reg3) - GRANULE
              /\ fp'.writes = fp.writes + 1]_vars
    /\ [][fp.pc # "idle" /\ fp'.pc = "idle" => ev'.op = "fastdone"]_vars
    /\ (fp.pc # "idle") ~> (fp.pc = "idle")

\* a walk that crossed a shadow block has returned to its site
C22_Witness ==
    /\ ev.op = "fastdone" /\ ev.via = "walk" /\ fp.pc = "idle"
    /\ fp.writes = 8
    /\ ev.ret = fp.retaddr

\* the magnitude of the adjustment that ran last
EvMagnitude == Magnitude(EvNewSp(ev) - ev.esp)

(***************************************************************************)
(* C23: when in-region absolute adjustments of one magnitude D above the   *)
(* threshold keep occurring and no stack size lowers the threshold in      *)
(* between, the threshold eventually is >= D and stays so; from then on an *)
(* adjustment of magnitude D causes no region lookup, no false alarm and   *)
(* no bump.                                                                *)
(***************************************************************************)
C23_ThresholdCatchesUp ==
    /\ IsAdjust(ev) ~> (IsAdjust(ev) /\ threshold >= EvMagnitude)
    /\ [][IsAdjust(ev) => /\ IsAdjust(ev')
                          /\ EvMagnitude' = EvMagnitude
                          /\ threshold' >= threshold]_vars
    /\ [][(IsAdjust(ev) /\ threshold >= EvMagnitude) =>
              /\ ~ev'.lookup
              /\ stack_swap_triggers' = stack_swap_triggers
              /\ num_non_swaps' = num_non_swaps
              /\ threshold' = threshold
              /\ threshold_updates' = threshold_updates]_vars

\* after two bumps the threshold covers a magnitude of 0x2800, and an
\* adjustment of that magnitude has run without a lookup
C23_Witness ==
    /\ IsAdjust(ev) /\ EvMagnitude = 10240 /\ ~ev.lookup
    /\ threshold = MIN_SWAP_THRESHOLD + 2 * PAGE_SIZE
    /\ threshold_updates = 2

(***************************************************************************)
(* C24: a relative adjustment (sub, add, ret n), whatever its magnitude,   *)
(* is never taken for a swap and never causes a region lookup: the update  *)
(* covers the whole range between the old and the new stack pointer, and   *)
(* the swap-trigger count, the swap count, the false-alarm counter and the *)
(* threshold are unchanged, in the slow handler and in the fragments.      *)
(***************************************************************************)
C24_RelativeNeverSwap ==
    /\ [][(IsAdjust(ev') /\ ev'.type \in {ESP_ADJUST_NEGATIVE, ESP_ADJUST_POSITIVE,
                                         ESP_ADJUST_RET_IMMED}) =>
              /\ ~ev'.lookup /\ ~ev'.swap
              /\ UNCHANGED <<threshold, num_non_swaps, stack_swaps,
                             stack_swap_triggers>>
              /\ LocalUpdate(ev')]_vars
    /\ []((ev.op = "fastdone" /\ ev.type \in {ESP_ADJUST_NEGATIVE, ESP_ADJUST_POSITIVE,
                                              ESP_ADJUST_RET_IMMED}) =>
              /\ ~ev.lookup /\ ~ev.swap
              /\ threshold = fp.s0.threshold
              /\ num_non_swaps = fp.s0.num_non_swaps
              /\ stack_swaps = fp.s0.stack_swaps
              /\ stack_swap_triggers = fp.s0.stack_swap_triggers
              /\ IF EvNewSp(ev) < EvOldSp(ev)
                 THEN EffectOnly(fp.s0.shadow, shadow, EvNewSp(ev), EvOldSp(ev),
                                 SHADOW_UNDEFINED)
                 ELSE EffectOnly(fp.s0.shadow, shadow, EvOldSp(ev), EvNewSp(ev),
                                 SHADOW_UNADDRESSABLE))

(***************************************************************************)
(* C25: in lightweight mode the inline zero-fill loop of a fast-path site  *)
(* zeroes, for every adjustment, the bytes the slow handler would zero for *)
(* the same event: all of [new_sp, old_sp) when the stack grows inside its *)
(* region, nothing on a shrink and nothing on a genuine swap.              *)
(***************************************************************************)
C25_InlineZeroFillAsSlow ==
    ev.op = "inlinedone" =>
        appmem = handle_esp_adjust(fp.s0, FALSE, ev.type, ev.esp, ev.val).s.appmem

====
